---- MODULE Spec2Model ----
(***************************************************************************)
(* Model of streamlit_app.py (Abfahrten): the store (locations, tours,     *)
(* tour_stops, departures, screens), the recurrence resolver, the          *)
(* materializer, the status automation and the screen query.               *)
(*                                                                         *)
(* Time is wall-clock time in Europe/Berlin, counted in whole seconds from *)
(* a Monday 00:00:00.  All datetimes of the program carry the same tzinfo  *)
(* object, so Python compares and subtracts them by their wall-clock       *)
(* fields; the ISO text of a datetime (timespec seconds) and its parse are *)
(* therefore the same whole number of seconds.                             *)
(***************************************************************************)
EXTENDS Integers, Sequences, FiniteSets, TLC

VARIABLES now, locations, screens, tours, tour_stops, departures, next_id,
          next_uuid, adv, mat, serial, req

vars == <<now, locations, screens, tours, tour_stops, departures, next_id,
          next_uuid, adv, mat, serial, req>>

(***************************************************************************)
(* Program constants                                                       *)
(***************************************************************************)
WEEKDAYS_DE == <<"Montag", "Dienstag", "Mittwoch", "Donnerstag", "Freitag", "Samstag", "Sonntag">>

WEEKDAY_TO_INT(name) == (CHOOSE i \in 1..7 : WEEKDAYS_DE[i] = name) - 1

COUNTDOWN_START_HOURS == 3

AUTO_COMPLETE_AFTER_MIN == 20

KEEP_COMPLETED_MINUTES == 10

MATERIALIZE_TOURS_HOURS_BEFORE == 12

DISPLAY_WINDOW_HOURS == 12

\* a NULL column value (ready_at, completed_at, screen_id)
NULL == -1

\* timedelta(minutes=m), timedelta(hours=h), timedelta(days=d) in seconds
Minutes(m) == m * 60

Hours(h) == h * 3600

Days(d) == d * 86400

(***************************************************************************)
(* Bounds of the model                                                     *)
(***************************************************************************)
\* most manual departures the operator creates in one behaviour
MaxManual == 1

\* most rows of the table departures
MaxDepartures == 2

\* number of requests that run a pass at the same time
NumPasses == 2

\* ids of the locations and of the screens in the store
LocIds == {1, 2}

ScreenIds == {1, 2}

\* the weekly slot the clock values are laid around: Monday 08:00 of week 1
Slot == Days(7) + Hours(8)

\* the instants at which the clock is read
TimePoints ==
    { Slot - Hours(13), Slot - Hours(1), Slot, Slot + Minutes(5),
      Slot + Minutes(20), Slot + Minutes(25), Slot + Minutes(30) }

\* what the tour form can be saved with
TourTimes == { <<"Montag", 8, 0>>, <<"Montag", 9, 0>> }

TourScreens == { <<1>>, <<1, 2>> }

TourStops == { <<1>> }

\* what the manual-departure form can be saved with
ManualTimes == { Slot }

ManualScreens == { <<1>> }

(***************************************************************************)
(* Time helpers                                                            *)
(***************************************************************************)
\* datetime.weekday() of an instant, Monday = 0
weekday_of(t) == (t \div Days(1)) % 7

\* next_datetime_for_weekday_time with `<` in the test `candidate_dt <= now`
next_datetime_for_weekday_time_lt(weekday_name, hour, minute, clock) ==
    LET target == WEEKDAY_TO_INT(weekday_name)
        today == weekday_of(clock)
        days_ahead == (target - today) % 7
        candidate_date == (clock \div Days(1)) + days_ahead
        candidate_dt == Days(candidate_date) + Hours(hour) + Minutes(minute)
    IN  IF candidate_dt < clock THEN candidate_dt + Days(7) ELSE candidate_dt

next_datetime_for_weekday_time(weekday_name, hour, minute, clock) ==
    LET target == WEEKDAY_TO_INT(weekday_name)
        today == weekday_of(clock)
        days_ahead == (target - today) % 7
        candidate_date == (clock \div Days(1)) + days_ahead
        candidate_dt == Days(candidate_date) + Hours(hour) + Minutes(minute)
    IN  IF candidate_dt <= clock THEN candidate_dt + Days(7) ELSE candidate_dt

\* dtime(hour=hour, minute=minute) inside the resolver raises ValueError for an
\* hour outside 0..23 or a minute outside 0..59
dtime_raises(hour, minute) == ~(hour \in 0..23 /\ minute \in 0..59)

completion_deadline(dep_dt) == dep_dt + Minutes(AUTO_COMPLETE_AFTER_MIN)

\* SQL COALESCE(col, v)
COALESCE(col, v) == IF col # NULL THEN col ELSE v

\* parse_screen_ids: the comma separated parts that are digit strings; a part
\* is modelled by its number, a part that is no digit string by a negative one
parse_screen_ids(screen_ids_value) ==
    SelectSeq(screen_ids_value, LAMBDA p : p >= 0)

(***************************************************************************)
(* Status automation: update_departure_statuses                            *)
(***************************************************************************)
\* to_done_of with the READY test put first: a row the READY test takes is not
\* looked at for the deadline
to_done_of_ready_first(rows, clock) ==
    { r.id : r \in { x \in rows :
        /\ x.status \notin {"STORNIERT", "ABGESCHLOSSEN"}
        /\ ~(clock >= x.datetime /\ x.status # "BEREIT")
        /\ clock >= completion_deadline(x.datetime) } }

\* the ids the loop over the rows read puts into to_done
to_done_of(rows, clock) ==
    { r.id : r \in { x \in rows :
        /\ x.status \notin {"STORNIERT", "ABGESCHLOSSEN"}
        /\ clock >= completion_deadline(x.datetime) } }

\* to_ready_of with `if` in place of `elif`: the deadline is not looked at
to_ready_of_no_deadline(rows, clock) ==
    { r.id : r \in { x \in rows :
        /\ x.status \notin {"STORNIERT", "ABGESCHLOSSEN"}
        /\ clock >= x.datetime
        /\ x.status # "BEREIT" } }

\* the ids the loop over the rows read puts into to_ready
to_ready_of(rows, clock) ==
    { r.id : r \in { x \in rows :
        /\ x.status \notin {"STORNIERT", "ABGESCHLOSSEN"}
        /\ ~(clock >= completion_deadline(x.datetime))
        /\ clock >= x.datetime
        /\ x.status # "BEREIT" } }

\* write_ready without the COALESCE: ready_at is overwritten
write_ready_overwrite(deps, ids, now_iso) ==
    { IF d.id \in ids
        THEN [d EXCEPT !.status = "BEREIT", !.ready_at = now_iso]
        ELSE d : d \in deps }

\* UPDATE departures SET status='BEREIT', ready_at=COALESCE(ready_at, ?) WHERE id=?
write_ready(deps, ids, now_iso) ==
    { IF d.id \in ids
        THEN [d EXCEPT !.status = "BEREIT", !.ready_at = COALESCE(d.ready_at, now_iso)]
        ELSE d : d \in deps }

\* write_done without status='ABGESCHLOSSEN': only completed_at is set
write_done_timestamp_only(deps, ids, now_iso) ==
    { IF d.id \in ids
        THEN [d EXCEPT !.completed_at = COALESCE(d.completed_at, now_iso)]
        ELSE d : d \in deps }

\* UPDATE departures SET status='ABGESCHLOSSEN', completed_at=COALESCE(completed_at, ?) WHERE id=?
write_done(deps, ids, now_iso) ==
    { IF d.id \in ids
        THEN [d EXCEPT !.status = "ABGESCHLOSSEN", !.completed_at = COALESCE(d.completed_at, now_iso)]
        ELSE d : d \in deps }

\* update_departure_statuses without the block `if to_ready:`
update_departure_statuses_skip_ready(deps, clock) ==
    write_done(deps, to_done_of(deps, clock), clock)

\* one whole pass with nothing running in between
update_departure_statuses(deps, clock) ==
    write_done(write_ready(deps, to_ready_of(deps, clock), clock),
               to_done_of(deps, clock), clock)

(***************************************************************************)
(* Materializer: materialize_tours_to_departures                           *)
(***************************************************************************)
\* source_key_taken without the unique index: no INSERT is refused
source_key_taken_never(deps, key) == FALSE

\* the INSERT under the unique index idx_departures_source_key: a row whose
\* source_key is already present raises IntegrityError and adds nothing
source_key_taken(deps, key) == \E d \in deps : d.source_key = key

\* insert_departure as INSERT OR REPLACE: the row of the same source_key is
\* thrown away for the new one
insert_departure_or_replace(st, dep_dt, loc_id, key, created_by, sid, cd) ==
    [deps |-> { d \in st.deps : d.source_key # key } \cup
              { [id |-> st.next_id, datetime |-> dep_dt, location_id |-> loc_id,
                 status |-> "GEPLANT", ready_at |-> NULL, completed_at |-> NULL,
                 source_key |-> key, created_by |-> created_by,
                 screen_id |-> sid, countdown_enabled |-> cd] },
     next_id |-> st.next_id + 1]

insert_departure(st, dep_dt, loc_id, key, created_by, sid, cd) ==
    IF source_key_taken(st.deps, key)
      THEN st
      ELSE [deps |-> st.deps \cup
                     { [id |-> st.next_id, datetime |-> dep_dt, location_id |-> loc_id,
                        status |-> "GEPLANT", ready_at |-> NULL, completed_at |-> NULL,
                        source_key |-> key, created_by |-> created_by,
                        screen_id |-> sid, countdown_enabled |-> cd] },
            next_id |-> st.next_id + 1]

\* the rows of tours JOIN tour_stops JOIN locations that pass the filter
\* tour_active = 1 and location_active = 1, in the order (tour id, position)
RECURSIVE seq_of_rows(_)
seq_of_rows(S) ==
    IF S = {} THEN <<>>
    ELSE LET r == CHOOSE x \in S : \A y \in S :
                     \/ x.tour_id < y.tour_id
                     \/ (x.tour_id = y.tour_id /\ x.position <= y.position)
         IN  <<r>> \o seq_of_rows(S \ {r})

\* materialize_rows without the test location_active == 1
materialize_rows_any_location(trs, stops, locs) ==
    seq_of_rows(
      { [tour_id |-> t.id, weekday |-> t.weekday, hour |-> t.hour, minute |-> t.minute,
         screen_ids |-> t.screen_ids, countdown_enabled |-> t.countdown_enabled,
         location_id |-> s.location_id, position |-> s.position]
        : <<t, s>> \in { p \in trs \X stops :
              /\ p[2].tour_id = p[1].id
              /\ p[2].location_id \in DOMAIN locs
              /\ p[1].active = 1 } })

materialize_rows(trs, stops, locs) ==
    seq_of_rows(
      { [tour_id |-> t.id, weekday |-> t.weekday, hour |-> t.hour, minute |-> t.minute,
         screen_ids |-> t.screen_ids, countdown_enabled |-> t.countdown_enabled,
         location_id |-> s.location_id, position |-> s.position]
        : <<t, s>> \in { p \in trs \X stops :
              /\ p[2].tour_id = p[1].id
              /\ p[2].location_id \in DOMAIN locs
              /\ p[1].active = 1
              /\ locs[p[2].location_id].active = 1 } })

row_hour(r) == IF r.hour >= 0 THEN r.hour ELSE 0

\* row_minute without the line `minute = 0 if minute not in (0, 30) else minute`
row_minute_keep(r) == IF r.minute >= 0 THEN r.minute ELSE 0

row_minute(r) == IF r.minute \in {0, 30} THEN r.minute ELSE 0

\* the row gets past `if not screen_ids or weekday not in WEEKDAYS_DE: continue`
\* and the resolver raises on its hour: the exception leaves the pass
row_raises(r) ==
    /\ parse_screen_ids(r.screen_ids) # <<>>
    /\ r.weekday \in { WEEKDAYS_DE[i] : i \in 1..7 }
    /\ dtime_raises(row_hour(r), row_minute(r))

\* f"TOUR:{tour_id}:{pos}:{sid}:{dep_dt.isoformat()}"
tour_source_key(r, sid, dep_dt) == <<"TOUR", r.tour_id, r.position, sid, dep_dt>>

\* the loop `for sid in screen_ids` of one row
RECURSIVE insert_for_screens(_, _, _, _)
insert_for_screens(st, r, dep_dt, sids) ==
    IF sids = <<>> THEN st
    ELSE insert_for_screens(
           insert_departure(st, dep_dt, r.location_id, tour_source_key(r, Head(sids), dep_dt),
                            "TOUR_AUTO", Head(sids), r.countdown_enabled),
           r, dep_dt, Tail(sids))

\* row_dep_dt with `>=` in the test of the window: an occurrence exactly
\* create_window_hours ahead is skipped
row_dep_dt_exclusive(r, pass_now, clock, create_window_hours) ==
    LET dep_dt == next_datetime_for_weekday_time(r.weekday, row_hour(r), row_minute(r), clock)
    IN  IF parse_screen_ids(r.screen_ids) = <<>>
             \/ r.weekday \notin { WEEKDAYS_DE[i] : i \in 1..7 } THEN NULL
        ELSE IF dep_dt - pass_now >= Hours(create_window_hours) THEN NULL
        ELSE IF pass_now - dep_dt > Days(1) THEN NULL
        ELSE dep_dt

\* the occurrence one row is materialized at, NULL when the row is skipped;
\* pass_now is the clock the pass read at its start, clock the one the
\* resolver reads
row_dep_dt(r, pass_now, clock, create_window_hours) ==
    LET dep_dt == next_datetime_for_weekday_time(r.weekday, row_hour(r), row_minute(r), clock)
    IN  IF parse_screen_ids(r.screen_ids) = <<>>
             \/ r.weekday \notin { WEEKDAYS_DE[i] : i \in 1..7 } THEN NULL
        ELSE IF dep_dt - pass_now > Hours(create_window_hours) THEN NULL
        ELSE IF pass_now - dep_dt > Days(1) THEN NULL
        ELSE dep_dt

\* materialize_row with the resolver reading a clock that is one hour behind
materialize_row_late_clock(st, r, pass_now, clock, create_window_hours) ==
    LET dep_dt == row_dep_dt(r, pass_now, clock - Hours(1), create_window_hours)
    IN  IF dep_dt = NULL THEN st
        ELSE insert_for_screens(st, r, dep_dt, parse_screen_ids(r.screen_ids))

\* the body of the loop over the rows, for one row
materialize_row(st, r, pass_now, clock, create_window_hours) ==
    LET dep_dt == row_dep_dt(r, pass_now, clock, create_window_hours)
    IN  IF dep_dt = NULL THEN st
        ELSE insert_for_screens(st, r, dep_dt, parse_screen_ids(r.screen_ids))

RECURSIVE materialize_loop(_, _, _, _)
materialize_loop(st, rows, clock, create_window_hours) ==
    IF rows = <<>> THEN st
    ELSE IF row_raises(Head(rows)) THEN st
    ELSE materialize_loop(materialize_row(st, Head(rows), clock, clock, create_window_hours),
                          Tail(rows), clock, create_window_hours)

\* the pass ends in an exception; the rows it has inserted before stay in the
\* open transaction of the shared connection
materialize_raises(trs, stops, locs) ==
    LET rows == materialize_rows(trs, stops, locs)
    IN  \E i \in 1..Len(rows) : row_raises(rows[i])

\* one whole pass at one clock value with nothing running in between
materialize_tours_to_departures(st, trs, stops, locs, clock, create_window_hours) ==
    materialize_loop(st, materialize_rows(trs, stops, locs), clock, create_window_hours)

(***************************************************************************)
(* Manual departures: create_manual_departures                             *)
(***************************************************************************)
RECURSIVE create_manual_loop(_, _, _, _, _, _)
create_manual_loop(st, uuids, dep_dt, location_id, sids, cd) ==
    IF sids = <<>> THEN st
    ELSE create_manual_loop(
           insert_departure(st, dep_dt, location_id,
                            <<"MANUAL", uuids, Head(sids), dep_dt>>,
                            "admin", Head(sids), cd),
           uuids + 1, dep_dt, location_id, Tail(sids), cd)

(***************************************************************************)
(* Screen data: get_screen_data                                            *)
(***************************************************************************)
\* f"{n:02d}"
two_digits(n) == IF n < 10 THEN "0" \o ToString(n) ELSE ToString(n)

\* fmt_compact that writes the hours also when there are none
fmt_compact_hours(td) ==
    LET total == IF td < 0 THEN 0 ELSE td
        h == total \div 3600
        m == (total % 3600) \div 60
        s == total % 60
    IN  two_digits(h) \o ":" \o two_digits(m) \o ":" \o two_digits(s)

fmt_compact(td) ==
    LET total == IF td < 0 THEN 0 ELSE td
        h == total \div 3600
        m == (total % 3600) \div 60
        s == total % 60
    IN  IF h > 0 THEN two_digits(h) \o ":" \o two_digits(m) \o ":" \o two_digits(s)
        ELSE two_digits(m) \o ":" \o two_digits(s)

\* visible with now < base + KEEP_COMPLETED_MINUTES
visible_before(row, clock) ==
    IF row.status # "ABGESCHLOSSEN" THEN TRUE
    ELSE IF KEEP_COMPLETED_MINUTES <= 0 THEN FALSE
    ELSE LET base == IF row.completed_at # NULL THEN row.completed_at
                     ELSE completion_deadline(row.datetime)
         IN  clock < base + Minutes(KEEP_COMPLETED_MINUTES)

\* the inner function visible(row) of get_screen_data
visible(row, clock) ==
    IF row.status # "ABGESCHLOSSEN" THEN TRUE
    ELSE IF KEEP_COMPLETED_MINUTES <= 0 THEN FALSE
    ELSE LET base == IF row.completed_at # NULL THEN row.completed_at
                     ELSE completion_deadline(row.datetime)
         IN  clock <= base + Minutes(KEEP_COMPLETED_MINUTES)

\* the inner function build_line_info(row) of get_screen_data;
\* cd_on is int(countdown_enabled or 1) == 1
cd_on_of(countdown_enabled) ==
    (IF countdown_enabled = 0 THEN 1 ELSE countdown_enabled) = 1

\* build_line_info that shows the time past the deadline in place of zero
build_line_info_overdue(row, clock) ==
    IF ~cd_on_of(row.countdown_enabled) THEN ""
    ELSE IF row.status = "GEPLANT"
      THEN LET delta == row.datetime - clock
           IN  IF 0 <= delta /\ delta <= Hours(COUNTDOWN_START_HOURS)
                 THEN "Countdown: " \o fmt_compact(delta)
                 ELSE ""
    ELSE IF row.status = "BEREIT"
      THEN LET left == completion_deadline(row.datetime) - clock
               rem == "Abschluss in " \o fmt_compact(IF left < 0 THEN 0 - left ELSE left)
           IN  IF row.ready_at # NULL
                 THEN "BEREIT seit " \o fmt_compact(clock - row.ready_at) \o " · " \o rem
                 ELSE rem
    ELSE ""

build_line_info(row, clock) ==
    IF ~cd_on_of(row.countdown_enabled) THEN ""
    ELSE IF row.status = "GEPLANT"
      THEN LET delta == row.datetime - clock
           IN  IF 0 <= delta /\ delta <= Hours(COUNTDOWN_START_HOURS)
                 THEN "Countdown: " \o fmt_compact(delta)
                 ELSE ""
    ELSE IF row.status = "BEREIT"
      THEN LET rem == "Abschluss in " \o fmt_compact(completion_deadline(row.datetime) - clock)
           IN  IF row.ready_at # NULL
                 THEN "BEREIT seit " \o fmt_compact(clock - row.ready_at) \o " · " \o rem
                 ELSE rem
    ELSE ""

\* deps[(deps["screen_id"].isna()) | (deps["screen_id"] == int(screen_id))]
owned_by_or_other(d, screen_id) == TRUE

owned_by(d, screen_id) == d.screen_id = NULL \/ d.screen_id = screen_id

\* ids: the parts of filter_locations that are digits; a part that is not is
\* written as a negative number
filter_ids(filter_locations) == SelectSeq(filter_locations, LAMBDA p : p >= 0)

\* the filters on the location type and on the location ids of the screen
passes_filters_either(d, locs, scr_row) ==
    LET ids == filter_ids(scr_row.filter_locations)
    IN  \/ (scr_row.filter_type # "ALLE" /\ locs[d.location_id].type = scr_row.filter_type)
        \/ (ids # <<>> /\ \E i \in 1..Len(ids) : ids[i] = d.location_id)
        \/ (scr_row.filter_type = "ALLE" /\ ids = <<>>)

passes_filters(d, locs, scr_row) ==
    LET ids == filter_ids(scr_row.filter_locations)
    IN  /\ (scr_row.filter_type # "ALLE" => locs[d.location_id].type = scr_row.filter_type)
        /\ (ids # <<>> => \E i \in 1..Len(ids) : ids[i] = d.location_id)

\* deps[(deps["datetime"] >= window_start) & (deps["datetime"] <= end)]
in_window_open(d, clock) ==
    /\ d.datetime > clock - Minutes(AUTO_COMPLETE_AFTER_MIN)
    /\ d.datetime < clock + Hours(DISPLAY_WINDOW_HOURS)

in_window(d, clock) ==
    /\ d.datetime >= clock - Minutes(AUTO_COMPLETE_AFTER_MIN)
    /\ d.datetime <= clock + Hours(DISPLAY_WINDOW_HOURS)

\* screen_rows without deps[deps["location_active"] == 1]
screen_rows_any_location(deps, locs, scr, screen_id, clock) ==
    { d \in deps :
        /\ d.location_id \in DOMAIN locs
        /\ owned_by(d, screen_id)
        /\ passes_filters(d, locs, scr[screen_id])
        /\ in_window(d, clock)
        /\ visible(d, clock) }

\* the rows of departures JOIN locations left after the filters of get_screen_data
screen_rows(deps, locs, scr, screen_id, clock) ==
    { d \in deps :
        /\ d.location_id \in DOMAIN locs
        /\ locs[d.location_id].active = 1
        /\ owned_by(d, screen_id)
        /\ passes_filters(d, locs, scr[screen_id])
        /\ in_window(d, clock)
        /\ visible(d, clock) }

\* DataFrame.sort_values(col): the rows in ascending order of the column, rows
\* of equal value in the order of the SELECT, which is the order of their ids
RECURSIVE sorted_rows(_, _)
sorted_rows(S, col) ==
    IF S = {} THEN <<>>
    ELSE LET r == CHOOSE x \in S : \A y \in S :
                     \/ x[col] < y[col]
                     \/ (x[col] = y[col] /\ x.id <= y.id)
         IN  <<r>> \o sorted_rows(S \ {r}, col)

\* the rows as load_departures_with_locations has read them
sort_values_none(S) == sorted_rows(S, "id")

\* deps.sort_values("datetime")
sort_values(S) == sorted_rows(S, "datetime")

\* get_screen_data with the STORNIERT rows taken out of the data frame
get_screen_data_without_cancelled(deps, locs, scr, screen_id, clock) ==
    LET rows == sort_values({ d \in screen_rows(deps, locs, scr, screen_id, clock) :
                                d.status # "STORNIERT" })
    IN  [i \in 1..Len(rows) |-> [row |-> rows[i], line_info |-> build_line_info(rows[i], clock)]]

\* the data frame get_screen_data returns: the rows with their line_info
get_screen_data(deps, locs, scr, screen_id, clock) ==
    LET rows == sort_values(screen_rows(deps, locs, scr, screen_id, clock))
    IN  [i \in 1..Len(rows) |-> [row |-> rows[i], line_info |-> build_line_info(rows[i], clock)]]

\* the rows the warehouse page shows for one zone: active location, owned by
\* the zone's screen, now <= datetime <= now + 12 h, the first two by datetime
get_next_two_departures_for_zone(deps, locs, zone_screen_id, clock) ==
    LET rows == sort_values({ d \in deps :
                    /\ d.location_id \in DOMAIN locs
                    /\ locs[d.location_id].active = 1
                    /\ d.screen_id = zone_screen_id
                    /\ d.datetime >= clock
                    /\ d.datetime <= clock + Hours(DISPLAY_WINDOW_HOURS) })
    IN  SubSeq(rows, 1, IF Len(rows) < 2 THEN Len(rows) ELSE 2)

(***************************************************************************)
(* State                                                                   *)
(***************************************************************************)
Store == [deps |-> departures, next_id |-> next_id]

\* the requests that run a pass at the same time
Passes == 1..NumPasses

\* a request that is not inside update_departure_statuses
IdleAdv == [pc |-> "idle", now |-> NULL, to_ready |-> {}, to_done |-> {}]

\* a request that is not inside materialize_tours_to_departures
IdleMat == [pc |-> "idle", now |-> NULL, rows |-> <<>>, dep_dt |-> NULL, sids |-> <<>>,
            created_any |-> FALSE, due |-> {}, attempt |-> 0, inserted_any |-> FALSE,
            abandoned |-> FALSE, committed |-> FALSE, fk_swallowed |-> FALSE]

\* a request that has not called anything: main has not been entered
IdleReq == [pc |-> "idle", kind |-> "none", page |-> "none", calls |-> <<>>]

\* the store of init_db after the operator has entered two locations and one
\* tour (Monday 08:00, one stop, screen 1, countdown off as the form defaults)
Init ==
    /\ now = Slot - Hours(13)
    /\ locations = [l \in LocIds |-> [active |-> 1, type |-> "KRANKENHAUS"]]
    /\ screens = [s \in ScreenIds |-> [filter_type |-> "ALLE", filter_locations |-> <<>>]]
    /\ tours = { [id |-> 1, weekday |-> "Montag", hour |-> 8, minute |-> 0, active |-> 1,
                  screen_ids |-> <<1>>, countdown_enabled |-> 0] }
    /\ tour_stops = { [tour_id |-> 1, location_id |-> 1, position |-> 0] }
    /\ departures = {}
    /\ next_id = 1
    /\ next_uuid = 1
    /\ adv = [p \in Passes |-> IdleAdv]
    /\ mat = [p \in Passes |-> IdleMat]
    /\ serial = {}
    /\ req = [p \in Passes |-> IdleReq]

\* now_berlin(): the clock moves on to a later one of the given instants
TickIn(points) ==
    /\ \E t \in points : t > now /\ now' = t
    /\ UNCHANGED <<locations, screens, tours, tour_stops, departures, next_id,
                   next_uuid, adv, mat, serial, req>>

Tick == TickIn(TimePoints)

\* a request runs materialize_tours_to_departures to its end or to the
\* exception that leaves it
MaterializeStore ==
    LET st == materialize_tours_to_departures(Store, tours, tour_stops, locations, now,
                                              MATERIALIZE_TOURS_HOURS_BEFORE)
    IN  /\ departures' = st.deps
        /\ next_id' = st.next_id
        /\ UNCHANGED <<now, locations, screens, tours, tour_stops, next_uuid, adv, mat, serial, req>>

\* the same, as long as the table stays within the bound of the model
Materialize ==
    /\ Cardinality(materialize_tours_to_departures(Store, tours, tour_stops, locations, now,
                        MATERIALIZE_TOURS_HOURS_BEFORE).deps) <= MaxDepartures
    /\ MaterializeStore

\* UpdateStatuses without the `continue` for STORNIERT and ABGESCHLOSSEN rows
UpdateStatusesNoSkip ==
    /\ LET read == { [d EXCEPT !.status = IF d.status \in {"STORNIERT", "ABGESCHLOSSEN"}
                                           THEN "GEPLANT" ELSE d.status] : d \in departures }
       IN  departures' = write_done(write_ready(departures, to_ready_of(read, now), now),
                                    to_done_of(read, now), now)
    /\ UNCHANGED <<now, locations, screens, tours, tour_stops, next_id, next_uuid,
                   adv, mat, serial, req>>

\* a request runs update_departure_statuses to its end
UpdateStatuses ==
    /\ departures' = update_departure_statuses(departures, now)
    /\ UNCHANGED <<now, locations, screens, tours, tour_stops, next_id, next_uuid,
                   adv, mat, serial, req>>

\* show_admin_departures, form "Manuelle Abfahrt anlegen": one row per chosen
\* screen, each with a fresh uuid in its source_key
CreateManualWith(location_choices, countdown_choices) ==
    \E dep_dt \in ManualTimes, loc_id \in location_choices, sids \in ManualScreens,
       cd \in countdown_choices :
      LET st == create_manual_loop(Store, next_uuid, dep_dt, loc_id, sids, cd)
      IN  /\ next_uuid - 1 + Len(sids) <= MaxManual
          /\ Cardinality(st.deps) <= MaxDepartures
          /\ departures' = st.deps
          /\ next_id' = st.next_id
          /\ next_uuid' = next_uuid + Len(sids)
          /\ UNCHANGED <<now, locations, screens, tours, tour_stops, adv, mat, serial, req>>

CreateManual == CreateManualWith(DOMAIN locations, {0, 1})

\* show_admin_departures, "Ausgewaehlte manuelle Abfahrt loeschen": offered for
\* the rows whose source_key starts with MANUAL: only
is_manual(d) == d.source_key[1] = "MANUAL"

\* DeleteManual offered for every row
DeleteManualAny ==
    \E d \in { x \in departures : x.location_id \in DOMAIN locations } :
      /\ departures' = { x \in departures : x.id # d.id }
      /\ UNCHANGED <<now, locations, screens, tours, tour_stops, next_id, next_uuid,
                     adv, mat, serial, req>>

DeleteManual ==
    \E d \in { x \in departures : is_manual(x) /\ x.location_id \in DOMAIN locations } :
      /\ departures' = { x \in departures : x.id # d.id }
      /\ UNCHANGED <<now, locations, screens, tours, tour_stops, next_id, next_uuid,
                     adv, mat, serial, req>>

\* EditTourWith with the rows already materialized from the tour moved to the
\* new locations of its stops
EditTourWithResync(times, screen_choices, stop_choices, countdown_choices) ==
    \E t \in tours, tm \in times, sids \in screen_choices, stops \in stop_choices,
       active \in {0, 1}, cd \in countdown_choices :
      /\ tours' = (tours \ {t}) \cup
                  { [id |-> t.id, weekday |-> tm[1], hour |-> tm[2], minute |-> tm[3],
                     active |-> active, screen_ids |-> sids, countdown_enabled |-> cd] }
      /\ tour_stops' = { s \in tour_stops : s.tour_id # t.id } \cup
                       { [tour_id |-> t.id, location_id |-> stops[i], position |-> i - 1]
                         : i \in 1..Len(stops) }
      /\ departures' = { IF d.source_key[1] = "TOUR" /\ d.source_key[2] = t.id
                              /\ d.source_key[3] < Len(stops)
                           THEN [d EXCEPT !.location_id = stops[d.source_key[3] + 1]]
                           ELSE d : d \in departures }
      /\ UNCHANGED <<now, locations, screens, next_id, next_uuid, adv, mat, serial, req>>

\* show_admin_tours, "Aenderungen speichern": UPDATE tours, then the stops are
\* deleted and written again with positions 0, 1, ...
EditTourWith(times, screen_choices, stop_choices, countdown_choices) ==
    \E t \in tours, tm \in times, sids \in screen_choices, stops \in stop_choices,
       active \in {0, 1}, cd \in countdown_choices :
      /\ tours' = (tours \ {t}) \cup
                  { [id |-> t.id, weekday |-> tm[1], hour |-> tm[2], minute |-> tm[3],
                     active |-> active, screen_ids |-> sids, countdown_enabled |-> cd] }
      /\ tour_stops' = { s \in tour_stops : s.tour_id # t.id } \cup
                       { [tour_id |-> t.id, location_id |-> stops[i], position |-> i - 1]
                         : i \in 1..Len(stops) }
      /\ UNCHANGED <<now, locations, screens, departures, next_id, next_uuid, adv, mat, serial, req>>

EditTour == EditTourWith(TourTimes, TourScreens, TourStops, {0, 1})

Next ==
    \/ Tick
    \/ Materialize
    \/ UpdateStatuses
    \/ CreateManual
    \/ DeleteManual
    \/ EditTour

Spec == Init /\ [][Next]_vars

(***************************************************************************)
(* update_departure_statuses run by several requests at once, one          *)
(* statement at a time on the shared connection                            *)
(***************************************************************************)
\* the store one hour before the slot: the departure a pass has materialized
\* from the tour, and a manual departure half an hour after it
InitAutomation ==
    /\ now = Slot - Hours(1)
    /\ locations = [l \in LocIds |-> [active |-> 1, type |-> "KRANKENHAUS"]]
    /\ screens = [s \in ScreenIds |-> [filter_type |-> "ALLE", filter_locations |-> <<>>]]
    /\ tours = { [id |-> 1, weekday |-> "Montag", hour |-> 8, minute |-> 0, active |-> 1,
                  screen_ids |-> <<1>>, countdown_enabled |-> 0] }
    /\ tour_stops = { [tour_id |-> 1, location_id |-> 1, position |-> 0] }
    /\ LET st0 == materialize_tours_to_departures([deps |-> {}, next_id |-> 1], tours,
                      tour_stops, locations, now, MATERIALIZE_TOURS_HOURS_BEFORE)
           st1 == create_manual_loop(st0, 1, Slot + Minutes(30), 2, <<1>>, 1)
       IN  /\ departures = st1.deps
           /\ next_id = st1.next_id
    /\ next_uuid = 2
    /\ adv = [p \in Passes |-> IdleAdv]
    /\ mat = [p \in Passes |-> IdleMat]
    /\ serial = departures
    /\ req = [p \in Passes |-> IdleReq]

\* now = now_berlin() at the head of the pass; serial is the table as it would
\* be had every pass run alone at the moment it read the clock
AdvStart(p) ==
    /\ adv[p].pc = "idle"
    /\ adv' = [adv EXCEPT ![p] = [pc |-> "started", now |-> now, to_ready |-> {}, to_done |-> {}]]
    /\ serial' = update_departure_statuses(serial, now)
    /\ UNCHANGED <<now, locations, screens, tours, tour_stops, departures, next_id,
                   next_uuid, mat, req>>

\* AdvSelect with the clock read again for the comparisons of the loop
AdvSelectClockAgain(p) ==
    /\ adv[p].pc = "started"
    /\ LET tr == to_ready_of(departures, now)
           td == to_done_of(departures, now)
       IN  adv' = [adv EXCEPT ![p] =
                     IF tr = {} /\ td = {} THEN IdleAdv
                     ELSE [pc |-> "decided", now |-> adv[p].now, to_ready |-> tr, to_done |-> td]]
    /\ UNCHANGED <<now, locations, screens, tours, tour_stops, departures, next_id,
                   next_uuid, mat, serial, req>>

\* the SELECT and the loop that fills to_ready and to_done; the pass returns
\* when the table is empty or both lists are
AdvSelect(p) ==
    /\ adv[p].pc = "started"
    /\ LET tr == to_ready_of(departures, adv[p].now)
           td == to_done_of(departures, adv[p].now)
       IN  adv' = [adv EXCEPT ![p] =
                     IF tr = {} /\ td = {} THEN IdleAdv
                     ELSE [pc |-> "decided", now |-> adv[p].now, to_ready |-> tr, to_done |-> td]]
    /\ UNCHANGED <<now, locations, screens, tours, tour_stops, departures, next_id,
                   next_uuid, mat, serial, req>>

\* AdvWriteReady with an UPDATE that sets the status only
AdvWriteReadyStatusOnly(p) ==
    /\ adv[p].pc = "decided"
    /\ adv[p].to_ready # {}
    /\ departures' = { IF d.id \in adv[p].to_ready THEN [d EXCEPT !.status = "BEREIT"] ELSE d
                       : d \in departures }
    /\ adv' = [adv EXCEPT ![p] =
                 IF adv[p].to_done = {} THEN IdleAdv ELSE [adv[p] EXCEPT !.to_ready = {}]]
    /\ UNCHANGED <<now, locations, screens, tours, tour_stops, next_id, next_uuid, mat, serial, req>>

\* if to_ready: executemany(UPDATE ... status='BEREIT' ...)
AdvWriteReady(p) ==
    /\ adv[p].pc = "decided"
    /\ adv[p].to_ready # {}
    /\ departures' = write_ready(departures, adv[p].to_ready, adv[p].now)
    /\ adv' = [adv EXCEPT ![p] =
                 IF adv[p].to_done = {} THEN IdleAdv ELSE [adv[p] EXCEPT !.to_ready = {}]]
    /\ UNCHANGED <<now, locations, screens, tours, tour_stops, next_id, next_uuid, mat, serial, req>>

\* AdvWriteDone without the UPDATE: the pass returns with to_done unwritten
AdvWriteDoneDropped(p) ==
    /\ adv[p].pc = "decided"
    /\ adv[p].to_ready = {}
    /\ adv[p].to_done # {}
    /\ adv' = [adv EXCEPT ![p] = IdleAdv]
    /\ UNCHANGED <<now, locations, screens, tours, tour_stops, departures, next_id,
                   next_uuid, mat, serial, req>>

\* if to_done: executemany(UPDATE ... status='ABGESCHLOSSEN' ...), then commit
AdvWriteDone(p) ==
    /\ adv[p].pc = "decided"
    /\ adv[p].to_ready = {}
    /\ adv[p].to_done # {}
    /\ departures' = write_done(departures, adv[p].to_done, adv[p].now)
    /\ adv' = [adv EXCEPT ![p] = IdleAdv]
    /\ UNCHANGED <<now, locations, screens, tours, tour_stops, next_id, next_uuid, mat, serial, req>>

NextAutomation ==
    \/ Tick
    \/ \E p \in Passes : AdvStart(p)
    \/ \E p \in Passes : AdvSelect(p)
    \/ \E p \in Passes : AdvWriteReady(p)
    \/ \E p \in Passes : AdvWriteDone(p)

SpecAutomation == InitAutomation /\ [][NextAutomation]_vars

\* the passes under the scheduling of the program: the clock goes on, the
\* displays refresh again and again (st_autorefresh) so that every session
\* starts a pass again, and a pass that has started runs on to its end
FairAutomation ==
    /\ WF_vars(Tick)
    /\ \A p \in Passes :
         /\ WF_vars(AdvStart(p))
         /\ WF_vars(AdvSelect(p))
         /\ WF_vars(AdvWriteReady(p))
         /\ WF_vars(AdvWriteDone(p))

SpecAutomationFair == InitAutomation /\ [][NextAutomation]_vars /\ FairAutomation

(***************************************************************************)
(* materialize_tours_to_departures run by several requests at once, one    *)
(* statement at a time on the shared connection                            *)
(***************************************************************************)
\* the store with one tour shown on two screens and no departure yet
InitMaterialize ==
    /\ now = Slot - Hours(13)
    /\ locations = [l \in LocIds |-> [active |-> 1, type |-> "KRANKENHAUS"]]
    /\ screens = [s \in ScreenIds |-> [filter_type |-> "ALLE", filter_locations |-> <<>>]]
    /\ tours = { [id |-> 1, weekday |-> "Montag", hour |-> 8, minute |-> 0, active |-> 1,
                  screen_ids |-> <<1, 2>>, countdown_enabled |-> 0] }
    /\ tour_stops = { [tour_id |-> 1, location_id |-> 1, position |-> 0] }
    /\ departures = {}
    /\ next_id = 1
    /\ next_uuid = 1
    /\ adv = [p \in Passes |-> IdleAdv]
    /\ mat = [p \in Passes |-> IdleMat]
    /\ serial = {}
    /\ req = [p \in Passes |-> IdleReq]

\* now = now_berlin() and the SELECT over tours, tour_stops and locations; the
\* pass returns when no row is left after the filter
MatStart(p) ==
    /\ mat[p].pc = "idle"
    /\ LET rows == materialize_rows(tours, tour_stops, locations)
       IN  mat' = [mat EXCEPT ![p] =
                     [IdleMat EXCEPT !.pc = IF rows = <<>> THEN "idle" ELSE "loop",
                                     !.now = now, !.rows = rows]]
    /\ UNCHANGED <<now, locations, screens, tours, tour_stops, departures, next_id,
                   next_uuid, adv, serial, req>>

\* MatRow without the test `dep_dt - now > window`
MatRowNoWindow(p) ==
    /\ mat[p].pc = "loop"
    /\ mat[p].sids = <<>>
    /\ mat[p].rows # <<>>
    /\ LET r == Head(mat[p].rows)
           dep_dt == next_datetime_for_weekday_time(r.weekday, row_hour(r), row_minute(r), now)
           sids == parse_screen_ids(r.screen_ids)
       IN  mat' = [mat EXCEPT ![p] =
                     IF row_raises(r) THEN [mat[p] EXCEPT !.pc = "failed"]
                     ELSE [mat[p] EXCEPT !.dep_dt = dep_dt, !.sids = sids,
                             !.due = mat[p].due \cup
                                     { tour_source_key(r, sids[i], dep_dt) : i \in 1..Len(sids) }]]
    /\ UNCHANGED <<now, locations, screens, tours, tour_stops, departures, next_id,
                   next_uuid, adv, serial, req>>

\* the head of the loop body for the next row: the resolver reads the clock
\* again, and the row is skipped or its screens are queued; due collects the
\* source keys the pass has to insert
MatRow(p) ==
    /\ mat[p].pc = "loop"
    /\ mat[p].sids = <<>>
    /\ mat[p].rows # <<>>
    /\ LET r == Head(mat[p].rows)
           dep_dt == row_dep_dt(r, mat[p].now, now, MATERIALIZE_TOURS_HOURS_BEFORE)
           sids == parse_screen_ids(r.screen_ids)
       IN  mat' = [mat EXCEPT ![p] =
                     IF row_raises(r) THEN [mat[p] EXCEPT !.pc = "failed"]
                     ELSE IF dep_dt = NULL THEN [mat[p] EXCEPT !.rows = Tail(mat[p].rows)]
                     ELSE [mat[p] EXCEPT !.dep_dt = dep_dt, !.sids = sids,
                             !.due = mat[p].due \cup
                                     { tour_source_key(r, sids[i], dep_dt) : i \in 1..Len(sids) }]]
    /\ UNCHANGED <<now, locations, screens, tours, tour_stops, departures, next_id,
                   next_uuid, adv, serial, req>>

\* after_insert without the `except sqlite3.IntegrityError: pass`: the error
\* leaves the pass
after_insert_raise(m, conflict) ==
    IF conflict THEN [m EXCEPT !.pc = "failed"]
    ELSE [m EXCEPT !.sids = Tail(m.sids),
                   !.rows = IF Tail(m.sids) = <<>> THEN Tail(m.rows) ELSE m.rows,
                   !.created_any = TRUE]

\* what the try/except around one INSERT leaves in the pass: created_any is set
\* when the INSERT went through, an IntegrityError is passed over;
\* inserted_any records that the statement has added a row
after_insert(m, conflict) ==
    [m EXCEPT !.sids = Tail(m.sids),
              !.rows = IF Tail(m.sids) = <<>> THEN Tail(m.rows) ELSE m.rows,
              !.created_any = m.created_any \/ ~conflict,
              !.inserted_any = m.inserted_any \/ ~conflict]

\* one INSERT of the loop `for sid in screen_ids`: it raises IntegrityError if
\* the source_key is taken (unique index) or if the location of the row read
\* at the start of the pass is not there any more (FOREIGN KEY(location_id)
\* with PRAGMA foreign_keys=ON); fk_swallowed records the second case
MatInsert(p) ==
    /\ mat[p].pc = "loop"
    /\ mat[p].sids # <<>>
    /\ LET r == Head(mat[p].rows)
           sid == Head(mat[p].sids)
           key == tour_source_key(r, sid, mat[p].dep_dt)
           fk == r.location_id \notin DOMAIN locations
           st == IF fk THEN Store
                 ELSE insert_departure(Store, mat[p].dep_dt, r.location_id, key, "TOUR_AUTO",
                                       sid, r.countdown_enabled)
           m == after_insert(mat[p], source_key_taken(departures, key) \/ fk)
       IN  /\ departures' = st.deps
           /\ next_id' = st.next_id
           /\ mat' = [mat EXCEPT ![p] =
                        IF m.pc = "failed" THEN m
                        ELSE [m EXCEPT !.fk_swallowed = m.fk_swallowed \/ fk]]
    /\ UNCHANGED <<now, locations, screens, tours, tour_stops, next_uuid, adv, serial, req>>

\* the loop is over: commit if created_any, and return
MatFinish(p) ==
    /\ mat[p].pc = "loop"
    /\ mat[p].sids = <<>>
    /\ mat[p].rows = <<>>
    /\ mat' = [mat EXCEPT ![p].pc = "idle", ![p].committed = mat[p].created_any]
    /\ UNCHANGED <<now, locations, screens, tours, tour_stops, departures, next_id,
                   next_uuid, adv, serial, req>>

NextMaterialize ==
    \/ Tick
    \/ \E p \in Passes : MatStart(p)
    \/ \E p \in Passes : MatRow(p)
    \/ \E p \in Passes : MatInsert(p)
    \/ \E p \in Passes : MatFinish(p)

SpecMaterialize == InitMaterialize /\ [][NextMaterialize]_vars

(***************************************************************************)
(* materialize_tours_to_departures while another process holds the write   *)
(* lock of the database file now and then: every cur.execute of            *)
(* execute_with_retry either runs or fails with "database is locked"       *)
(***************************************************************************)
\* the default of the parameter retries of execute_with_retry
retries == 6

\* one round of the loop `for i in range(retries)`: what the function does
\* after the outcome of cur.execute at round i.  "ok" returns; an
\* IntegrityError is no OperationalError and leaves the function; a lock
\* failure sleeps and goes to the next round, and after the last round the
\* loop is over and the function ends, which returns None to the caller
execute_with_retry(i, outcome) ==
    IF outcome = "ok" THEN "return"
    ELSE IF outcome = "IntegrityError" THEN "raise"
    ELSE IF i + 1 < retries THEN "continue"
    ELSE "return"

\* what the try/except around execute_with_retry leaves in the pass once the
\* call is over: created_any is set when the call returned; abandoned records
\* a call that returned although no round has executed the statement
after_execute(m, result, executed) ==
    [m EXCEPT !.sids = Tail(m.sids),
              !.rows = IF Tail(m.sids) = <<>> THEN Tail(m.rows) ELSE m.rows,
              !.attempt = 0,
              !.created_any = m.created_any \/ result = "return",
              !.inserted_any = m.inserted_any \/ executed,
              !.abandoned = m.abandoned \/ (result = "return" /\ ~executed)]

\* the store one hour before the slot, with one tour shown on two screens
InitRetry ==
    /\ now = Slot - Hours(1)
    /\ locations = [l \in LocIds |-> [active |-> 1, type |-> "KRANKENHAUS"]]
    /\ screens = [s \in ScreenIds |-> [filter_type |-> "ALLE", filter_locations |-> <<>>]]
    /\ tours = { [id |-> 1, weekday |-> "Montag", hour |-> 8, minute |-> 0, active |-> 1,
                  screen_ids |-> <<1, 2>>, countdown_enabled |-> 0] }
    /\ tour_stops = { [tour_id |-> 1, location_id |-> 1, position |-> 0] }
    /\ departures = {}
    /\ next_id = 1
    /\ next_uuid = 1
    /\ adv = [p \in Passes |-> IdleAdv]
    /\ mat = [p \in Passes |-> IdleMat]
    /\ serial = {}
    /\ req = [p \in Passes |-> IdleReq]

\* one cur.execute of the INSERT inside execute_with_retry
MatAttempt(p) ==
    /\ mat[p].pc = "loop"
    /\ mat[p].sids # <<>>
    /\ \E locked \in BOOLEAN :
         LET r == Head(mat[p].rows)
             sid == Head(mat[p].sids)
             key == tour_source_key(r, sid, mat[p].dep_dt)
             outcome == IF locked THEN "locked"
                        ELSE IF source_key_taken(departures, key) THEN "IntegrityError"
                        ELSE "ok"
             result == execute_with_retry(mat[p].attempt, outcome)
             st == IF outcome = "ok"
                     THEN insert_departure(Store, mat[p].dep_dt, r.location_id, key,
                                           "TOUR_AUTO", sid, r.countdown_enabled)
                     ELSE Store
         IN  /\ departures' = st.deps
             /\ next_id' = st.next_id
             /\ mat' = [mat EXCEPT ![p] =
                          IF result = "continue"
                            THEN [mat[p] EXCEPT !.attempt = mat[p].attempt + 1]
                            ELSE after_execute(mat[p], result, outcome = "ok")]
    /\ UNCHANGED <<now, locations, screens, tours, tour_stops, next_uuid, adv, serial, req>>

NextRetry ==
    \/ \E p \in Passes : MatStart(p)
    \/ \E p \in Passes : MatRow(p)
    \/ \E p \in Passes : MatAttempt(p)
    \/ \E p \in Passes : MatFinish(p)

SpecRetry == InitRetry /\ [][NextRetry]_vars

(***************************************************************************)
(* The passes next to the admin forms for tours and locations              *)
(***************************************************************************)
\* the instants at which the clock is read
AdminTimePoints == { Slot - Hours(12), Slot + Minutes(5), Slot + Minutes(25) }

\* the stops the tour form can be saved with
AdminStops == { <<1>>, <<2>>, <<1, 2>> }

\* the screens the tour form can be saved with
AdminScreens == { <<1>>, <<1, 2>> }

\* the types the location form is saved with
AdminTypes == { "KRANKENHAUS" }

\* the store of Init, twelve hours before the slot of its tour
InitAdmin ==
    /\ now = Slot - Hours(12)
    /\ locations = [l \in LocIds |-> [active |-> 1, type |-> "KRANKENHAUS"]]
    /\ screens = [s \in ScreenIds |-> [filter_type |-> "ALLE", filter_locations |-> <<>>]]
    /\ tours = { [id |-> 1, weekday |-> "Montag", hour |-> 8, minute |-> 0, active |-> 1,
                  screen_ids |-> <<1>>, countdown_enabled |-> 0] }
    /\ tour_stops = { [tour_id |-> 1, location_id |-> 1, position |-> 0] }
    /\ departures = {}
    /\ next_id = 1
    /\ next_uuid = 1
    /\ adv = [p \in Passes |-> IdleAdv]
    /\ mat = [p \in Passes |-> IdleMat]
    /\ serial = {}
    /\ req = [p \in Passes |-> IdleReq]

TickAdmin == TickIn(AdminTimePoints)

\* the manual-departure form saved for the first location, countdown on
CreateManualAdmin == CreateManualWith({1}, {1})

EditTourAdmin == EditTourWith(TourTimes, AdminScreens, AdminStops, {0})

\* show_admin_tours, "Tour loeschen": the stops and the tour are deleted
DeleteTour ==
    \E t \in tours :
      /\ tours' = tours \ {t}
      /\ tour_stops' = { s \in tour_stops : s.tour_id # t.id }
      /\ UNCHANGED <<now, locations, screens, departures, next_id, next_uuid, adv, mat, serial, req>>

\* show_admin_locations, "Aenderungen speichern": UPDATE locations
SaveLocation ==
    \E l \in DOMAIN locations, typ \in AdminTypes, active \in {0, 1} :
      /\ locations' = [locations EXCEPT ![l] = [active |-> active, type |-> typ]]
      /\ UNCHANGED <<now, screens, tours, tour_stops, departures, next_id, next_uuid,
                     adv, mat, serial, req>>

NextAdmin ==
    \/ TickAdmin
    \/ Materialize
    \/ UpdateStatuses
    \/ CreateManualAdmin
    \/ EditTourAdmin
    \/ DeleteTour
    \/ SaveLocation

SpecAdmin == InitAdmin /\ [][NextAdmin]_vars

(***************************************************************************)
(* The operator deleting manual departures and tours between the passes    *)
(***************************************************************************)
DeleteTimePoints == { Slot - Hours(12), Slot - Hours(11), Slot + Minutes(25) }

TickDelete == TickIn(DeleteTimePoints)

\* the tour form saved with another time or with the tour switched off
EditTourDelete == EditTourWith(TourTimes, {<<1>>}, {<<1>>}, {0})

NextDelete ==
    \/ TickDelete
    \/ Materialize
    \/ UpdateStatuses
    \/ CreateManualAdmin
    \/ DeleteManual
    \/ EditTourDelete
    \/ DeleteTour

SpecDelete == InitAdmin /\ [][NextDelete]_vars

(***************************************************************************)
(* The operator deleting locations between the passes and the other forms  *)
(***************************************************************************)
LocationTimePoints == { Slot - Hours(12), Slot + Minutes(25) }

\* tours.location_id: the forms write the first stop of the tour there
primary_location(t) ==
    { s.location_id : s \in { x \in tour_stops : x.tour_id = t.id /\ x.position = 0 } }

\* location_counts without the count of the departures
location_counts_no_departures(l) ==
    [dep_count |-> 0,
     tour_count |-> Cardinality({ t \in tours : l \in primary_location(t) }),
     stop_count |-> Cardinality({ s \in tour_stops : s.location_id = l })]

\* the three SELECT COUNT(*) of show_admin_locations, "Loeschen"
location_counts(l) ==
    [dep_count |-> Cardinality({ d \in departures : d.location_id = l }),
     tour_count |-> Cardinality({ t \in tours : l \in primary_location(t) }),
     stop_count |-> Cardinality({ s \in tour_stops : s.location_id = l })]

\* show_admin_locations, "Loeschen": refused with the counts if one of them
\* is not 0, DELETE FROM locations if all are
DeleteLocation ==
    \E l \in DOMAIN locations :
      LET c == location_counts(l)
      IN  /\ locations' = IF c.dep_count # 0 \/ c.tour_count # 0 \/ c.stop_count # 0
                            THEN locations
                            ELSE [x \in DOMAIN locations \ {l} |-> locations[x]]
          /\ UNCHANGED <<now, screens, tours, tour_stops, departures, next_id, next_uuid,
                         adv, mat, serial, req>>

TickLocation == TickIn(LocationTimePoints)

\* the manual-departure form saved for one of the locations there are
CreateManualLocation == CreateManualWith(DOMAIN locations, {1})

\* the tour form saved with one of the locations there are as its stop
EditTourLocation ==
    EditTourWith({<<"Montag", 8, 0>>}, {<<1>>}, { <<l>> : l \in DOMAIN locations }, {0})

NextLocation ==
    \/ TickLocation
    \/ Materialize
    \/ UpdateStatuses
    \/ CreateManualLocation
    \/ DeleteManual
    \/ EditTourLocation
    \/ DeleteTour
    \/ DeleteLocation

SpecLocation == InitAdmin /\ [][NextLocation]_vars

(***************************************************************************)
(* materialize_tours_to_departures of one session while the operator, in   *)
(* another session, deletes the tour and then its location                 *)
(***************************************************************************)
NextForeignKey ==
    \/ TickAdmin
    \/ \E p \in Passes : MatStart(p)
    \/ \E p \in Passes : MatRow(p)
    \/ \E p \in Passes : MatInsert(p)
    \/ \E p \in Passes : MatFinish(p)
    \/ UpdateStatuses
    \/ DeleteTour
    \/ DeleteLocation

SpecForeignKey == InitAdmin /\ [][NextForeignKey]_vars

(***************************************************************************)
(* materialize_tours_to_departures over a database file that holds rows    *)
(* the forms and the import of this program do not write: a tour with a    *)
(* weekday outside WEEKDAYS_DE, an hour above 23, a minute other than 0    *)
(* and 30, no screen or no stop                                            *)
(***************************************************************************)
\* the instants at which the clock is read
LegacyTimePoints == { Slot - Hours(13), Slot - Hours(1), Slot + Hours(12) }

\* the stops tour 1 is found with
LegacyStops == { <<>>, <<1>>, <<1, 2>> }

\* the rows of tours that tour 1 is found as
LegacyTours ==
    [id : {1}, weekday : {"Montag", "Dienstag", "Monday"}, hour : {8, 25},
     minute : {0, 15, 30}, active : {0, 1}, screen_ids : {<<>>, <<1>>, <<1, 2>>},
     countdown_enabled : {0}]

\* the database file as get_connection finds it: tour 1 as it was written
\* there, tour 2 entered with the form (Monday 08:00, one stop, screen 1)
InitLegacy ==
    /\ now = Slot - Hours(13)
    /\ locations = [l \in LocIds |-> [active |-> 1, type |-> "KRANKENHAUS"]]
    /\ screens = [s \in ScreenIds |-> [filter_type |-> "ALLE", filter_locations |-> <<>>]]
    /\ \E t \in LegacyTours :
         tours = { t, [id |-> 2, weekday |-> "Montag", hour |-> 8, minute |-> 0, active |-> 1,
                       screen_ids |-> <<1>>, countdown_enabled |-> 0] }
    /\ \E stops \in LegacyStops :
         tour_stops = { [tour_id |-> 1, location_id |-> stops[i], position |-> i - 1]
                        : i \in 1..Len(stops) }
                      \cup { [tour_id |-> 2, location_id |-> 1, position |-> 0] }
    /\ departures = {}
    /\ next_id = 1
    /\ next_uuid = 1
    /\ adv = [p \in Passes |-> IdleAdv]
    /\ mat = [p \in Passes |-> IdleMat]
    /\ serial = {}
    /\ req = [p \in Passes |-> IdleReq]

TickLegacy == TickIn(LegacyTimePoints)

NextLegacy ==
    \/ TickLegacy
    \/ MaterializeStore
    \/ UpdateStatuses

SpecLegacy == InitLegacy /\ [][NextLegacy]_vars

(***************************************************************************)
(* The screens over a database file that holds a row from before the       *)
(* columns screen_id, source_key, created_by, ready_at, completed_at and   *)
(* countdown_enabled were added, with the operator editing screen 1        *)
(***************************************************************************)
\* the departure time of the row the file holds
LegacySlot == Slot + Minutes(30)

\* instants around the display window, the countdown and the retention of
\* that row
ScreenTimePoints ==
    { LegacySlot - Hours(13), LegacySlot - Hours(12) - 1, LegacySlot - Hours(12),
      LegacySlot - Hours(3) - 1, LegacySlot - Hours(3), LegacySlot - Minutes(59) - 59,
      LegacySlot, LegacySlot + 1, LegacySlot + Minutes(20), LegacySlot + Minutes(20) + 1 }

\* the states of the row: status and completed_at as the file has them
LegacyStates ==
    { <<"GEPLANT", NULL>>, <<"BEREIT", NULL>>, <<"STORNIERT", NULL>>,
      <<"ABGESCHLOSSEN", NULL>>, <<"ABGESCHLOSSEN", LegacySlot - Minutes(10)>> }

\* the values of screen_id: NULL as ALTER TABLE leaves it, or a screen
LegacyOwners == {NULL} \cup ScreenIds

\* location 2 as the operator has saved it: active and type
ScreenLocations == { <<1, "KRANKENHAUS">>, <<1, "MVZ">>, <<0, "MVZ">> }

\* the values of the form "Screen bearbeiten"
ScreenFilterTypes == { "ALLE", "KRANKENHAUS", "MVZ" }

\* filter_locations as typed: "", "2", "x" and "1,x"
ScreenFilterLocations == { <<>>, <<2>>, <<-1>>, <<1, -1>> }

\* the database file as get_connection finds it: one departure of the older
\* schema, after the ALTER TABLE statements have given it its new columns,
\* and a tour entered with the form (Monday 08:00, one stop, screens 1 and 2)
InitScreen ==
    /\ now = LegacySlot - Hours(13)
    /\ \E l2 \in ScreenLocations :
         locations = [l \in LocIds |-> IF l = 2 THEN [active |-> l2[1], type |-> l2[2]]
                                      ELSE [active |-> 1, type |-> "KRANKENHAUS"]]
    /\ screens = [s \in ScreenIds |-> [filter_type |-> "ALLE", filter_locations |-> <<>>]]
    /\ tours = { [id |-> 1, weekday |-> "Montag", hour |-> 8, minute |-> 0, active |-> 1,
                  screen_ids |-> <<1, 2>>, countdown_enabled |-> 1] }
    /\ tour_stops = { [tour_id |-> 1, location_id |-> 1, position |-> 0] }
    /\ \E st \in LegacyStates, owner \in LegacyOwners, loc_id \in LocIds :
         departures = { [id |-> 1, datetime |-> LegacySlot, location_id |-> loc_id,
                         status |-> st[1], ready_at |-> NULL, completed_at |-> st[2],
                         source_key |-> <<"NULL", 1>>, created_by |-> NULL,
                         screen_id |-> owner, countdown_enabled |-> 1] }
    /\ next_id = 2
    /\ next_uuid = 1
    /\ adv = [p \in Passes |-> IdleAdv]
    /\ mat = [p \in Passes |-> IdleMat]
    /\ serial = {}
    /\ req = [p \in Passes |-> IdleReq]

TickScreen == TickIn(ScreenTimePoints)

\* show_admin_screens, form "Screen bearbeiten" for screen 1
SaveScreen ==
    \E filter_type \in ScreenFilterTypes, filter_locations \in ScreenFilterLocations :
      /\ screens' = [screens EXCEPT ![1] = [filter_type |-> filter_type,
                                            filter_locations |-> filter_locations]]
      /\ UNCHANGED <<now, locations, tours, tour_stops, departures, next_id, next_uuid,
                     adv, mat, serial, req>>

NextScreen ==
    \/ TickScreen
    \/ MaterializeStore
    \/ UpdateStatuses
    \/ SaveScreen

SpecScreen == InitScreen /\ [][NextScreen]_vars

(***************************************************************************)
(* The script runs: main, show_display_mode and show_admin_mode as the     *)
(* sequence of their calls of the passes and of the loading of the rows,   *)
(* one run per session at a time, the runs of the sessions interleaved     *)
(***************************************************************************)
RequestTimePoints == { Slot - Hours(13), Slot - Hours(1), Slot + Minutes(5), Slot + Minutes(25) }

\* the query parameter mode
RequestKinds == { "display", "admin" }

\* what show_display_mode finds for its screenId: no screenId, a screen with
\* holiday_flag or special_flag, a WAREHOUSE screen, a DETAIL or OVERVIEW screen
DisplayPages == { "missing", "flag", "warehouse", "detail" }

\* the calls that load the rows of departures for a page
LoadCalls == { "get_screen_data", "get_next_two_departures_for_zone",
               "load_departures_with_locations" }

\* the call with which the run loads the rows of its page, "none" if the
\* page shows no rows
load_call(r) ==
    IF r.kind = "admin" THEN "load_departures_with_locations"
    ELSE IF r.page = "warehouse" THEN "get_next_two_departures_for_zone"
    ELSE IF r.page = "detail" THEN "get_screen_data"
    ELSE "none"

\* after_call that loads the rows right after materialize_tours_to_departures
after_call_load_early(r) ==
    IF r.pc = "materialize" THEN "load"
    ELSE IF r.pc = "update"
      THEN IF r.kind = "admin" /\ Len(r.calls) < 3 THEN "materialize" ELSE "load"
    ELSE "idle"

\* where the run goes on after the call it is at: show_display_mode calls
\* the two passes and then loads; show_admin_mode calls the two passes and
\* then show_admin_departures, which calls them again and then loads
after_call(r) ==
    IF r.pc = "materialize" THEN "update"
    ELSE IF r.pc = "update"
      THEN IF r.kind = "admin" /\ Len(r.calls) < 3 THEN "materialize" ELSE "load"
    ELSE "idle"

\* the run with the call it is at made
called(r, name) == [r EXCEPT !.pc = after_call(r), !.calls = Append(r.calls, name)]

\* main: a session starts a script run; show_display_mode returns before
\* the passes if there is no screenId
BeginRequest(p) ==
    /\ req[p].pc = "idle"
    /\ \E kind \in RequestKinds, page \in DisplayPages :
         /\ kind = "admin" => page = "detail"
         /\ req' = [req EXCEPT ![p] =
                     [pc |-> IF kind = "display" /\ page = "missing" THEN "idle"
                             ELSE "materialize",
                      kind |-> kind, page |-> page, calls |-> <<>>]]
    /\ UNCHANGED <<now, locations, screens, tours, tour_stops, departures, next_id,
                   next_uuid, adv, mat, serial>>

\* the run calls materialize_tours_to_departures
ReqMaterialize(p) ==
    /\ req[p].pc = "materialize"
    /\ LET st == materialize_tours_to_departures(Store, tours, tour_stops, locations, now,
                                                 MATERIALIZE_TOURS_HOURS_BEFORE)
       IN  /\ departures' = st.deps
           /\ next_id' = st.next_id
    /\ req' = [req EXCEPT ![p] = called(req[p], "materialize_tours_to_departures")]
    /\ UNCHANGED <<now, locations, screens, tours, tour_stops, next_uuid, adv, mat, serial>>

\* the run calls update_departure_statuses
ReqUpdate(p) ==
    /\ req[p].pc = "update"
    /\ departures' = update_departure_statuses(departures, now)
    /\ req' = [req EXCEPT ![p] = called(req[p], "update_departure_statuses")]
    /\ UNCHANGED <<now, locations, screens, tours, tour_stops, next_id, next_uuid,
                   adv, mat, serial>>

\* the run loads the rows of its page, or returns with the full-screen
\* message of a screen with a flag, and ends
ReqLoad(p) ==
    /\ req[p].pc = "load"
    /\ req' = [req EXCEPT ![p] =
                IF load_call(req[p]) = "none" THEN [req[p] EXCEPT !.pc = after_call(req[p])]
                ELSE called(req[p], load_call(req[p]))]
    /\ UNCHANGED <<now, locations, screens, tours, tour_stops, departures, next_id,
                   next_uuid, adv, mat, serial>>

TickRequest == TickIn(RequestTimePoints)

NextRequest ==
    \/ TickRequest
    \/ \E p \in Passes : BeginRequest(p)
    \/ \E p \in Passes : ReqMaterialize(p)
    \/ \E p \in Passes : ReqUpdate(p)
    \/ \E p \in Passes : ReqLoad(p)

SpecRequest == Init /\ [][NextRequest]_vars

(***************************************************************************)
(* The resolver under the passes, for a tour of any weekday and time the   *)
(* tour form offers                                                        *)
(***************************************************************************)
\* the instants at which the clock is read: around the slots 00:00, 08:00 and
\* 23:30 of a Monday, in the middle of the week and at its last second
ResolverTimePoints ==
    { Days(7), Days(7) + Hours(8) - 1, Days(7) + Hours(8), Days(7) + Hours(8) + 1,
      Days(7) + Hours(23) + Minutes(30), Days(8), Days(9) + Hours(12),
      Days(13) + Hours(23) + Minutes(30), Days(14) - 1 }

\* the tours the form can save: weekday, hour and minute
ResolverTours ==
    [id : {1}, weekday : { WEEKDAYS_DE[i] : i \in 1..7 }, hour : {0, 8, 23},
     minute : {0, 30}, active : {1}, screen_ids : {<<1>>}, countdown_enabled : {0}]

\* the store at Monday 00:00 with one tour, one stop and no departure
InitResolver ==
    /\ now = Days(7)
    /\ locations = [l \in LocIds |-> [active |-> 1, type |-> "KRANKENHAUS"]]
    /\ screens = [s \in ScreenIds |-> [filter_type |-> "ALLE", filter_locations |-> <<>>]]
    /\ tours \in { {t} : t \in ResolverTours }
    /\ tour_stops = { [tour_id |-> 1, location_id |-> 1, position |-> 0] }
    /\ departures = {}
    /\ next_id = 1
    /\ next_uuid = 1
    /\ adv = [p \in Passes |-> IdleAdv]
    /\ mat = [p \in Passes |-> IdleMat]
    /\ serial = {}
    /\ req = [p \in Passes |-> IdleReq]

TickResolver == TickIn(ResolverTimePoints)

NextResolver ==
    \/ TickResolver
    \/ MaterializeStore

SpecResolver == InitResolver /\ [][NextResolver]_vars

(***************************************************************************)
(* Properties of the status automation                                     *)
(***************************************************************************)
\* the moves PLANNED -> READY -> COMPLETED and PLANNED -> COMPLETED
status_forward(a, b) ==
    \/ a = b
    \/ a = "GEPLANT" /\ b \in {"BEREIT", "ABGESCHLOSSEN"}
    \/ a = "BEREIT" /\ b = "ABGESCHLOSSEN"

\* C1: no step of any interleaving of passes changes the status of a row
\* otherwise than forward along PLANNED -> READY -> COMPLETED; a COMPLETED or
\* CANCELLED row keeps its status
C1_StatusOnlyForward ==
    [][\A d \in departures : \A e \in departures' :
         e.id = d.id => status_forward(d.status, e.status)]_vars

\* C5: no step changes a ready_at or a completed_at that is already set
C5_TimestampsSetOnce ==
    [][\A d \in departures : \A e \in departures' :
         e.id = d.id =>
           /\ (d.ready_at # NULL => e.ready_at = d.ready_at)
           /\ (d.completed_at # NULL => e.completed_at = d.completed_at)]_vars

\* C5 witness: a pass is about to write its own, different clock value to a
\* row whose timestamp another pass has set already
C5_Witness ==
    \E d \in departures : \E p \in Passes :
      /\ adv[p].pc = "decided"
      /\ \/ d.id \in adv[p].to_ready /\ d.ready_at # NULL /\ d.ready_at # adv[p].now
         \/ d.id \in adv[p].to_done /\ d.completed_at # NULL /\ d.completed_at # adv[p].now

\* C6: when every pass has finished, the table equals the one the passes
\* leave when run one at a time in the order of their clock readings
C6_ConvergesToSerial ==
    (\A p \in Passes : adv[p].pc = "idle") => departures = serial

\* C7: a row with both timestamps has ready_at <= completed_at
C7_ReadyBeforeCompleted ==
    \A d \in departures :
      (d.ready_at # NULL /\ d.completed_at # NULL) => d.ready_at <= d.completed_at

\* C7 witness: a row that was made READY and later COMPLETED
C7_Witness ==
    \E d \in departures :
      d.ready_at # NULL /\ d.completed_at # NULL /\ d.ready_at < d.completed_at

\* C16: a pass at now >= T + AUTO_COMPLETE_AFTER_MIN makes every row that is
\* neither COMPLETED nor CANCELLED COMPLETED and sets completed_at to now
\* when it is unset; ready_at is left as it is, so a row that was PLANNED is
\* COMPLETED with ready_at unset
C16_CompletedPrecedence ==
    LET after == update_departure_statuses(departures, now)
    IN  \A d \in departures :
          ( /\ d.status \notin {"STORNIERT", "ABGESCHLOSSEN"}
            /\ now >= d.datetime + Minutes(AUTO_COMPLETE_AFTER_MIN) )
            => /\ [d EXCEPT !.status = "ABGESCHLOSSEN",
                            !.completed_at = IF d.completed_at = NULL THEN now
                                             ELSE d.completed_at] \in after
               /\ d.status = "GEPLANT" =>
                    \E e \in after : e.id = d.id /\ e.status = "ABGESCHLOSSEN"
                                                 /\ e.ready_at = NULL
                                                 /\ e.completed_at = now

\* C16 witness: a row that a pass has taken from PLANNED straight to COMPLETED
C16_Witness ==
    \E d \in departures :
      /\ d.status = "ABGESCHLOSSEN"
      /\ d.ready_at = NULL
      /\ d.completed_at = now
      /\ now >= d.datetime + Minutes(AUTO_COMPLETE_AFTER_MIN)

\* C17: a pass at now with T <= now < T + AUTO_COMPLETE_AFTER_MIN makes a
\* PLANNED row READY with ready_at = now; it leaves a row with now < T and a
\* row that is READY in that interval as they are
C17_ReadyInInterval ==
    LET after == update_departure_statuses(departures, now)
    IN  \A d \in departures :
          /\ ( /\ d.status = "GEPLANT"
               /\ d.datetime <= now
               /\ now < d.datetime + Minutes(AUTO_COMPLETE_AFTER_MIN) )
               => [d EXCEPT !.status = "BEREIT", !.ready_at = now] \in after
          /\ now < d.datetime => d \in after
          /\ ( /\ d.status = "BEREIT"
               /\ d.datetime <= now
               /\ now < d.datetime + Minutes(AUTO_COMPLETE_AFTER_MIN) )
               => d \in after

\* C17 witness: a row that a pass has made READY at the present clock value,
\* next to a row whose occurrence is still ahead
C17_Witness ==
    \E d \in departures :
      /\ d.status = "BEREIT"
      /\ d.ready_at = now
      /\ d.datetime <= now
      /\ now < d.datetime + Minutes(AUTO_COMPLETE_AFTER_MIN)

(***************************************************************************)
(* Properties of the materializer                                          *)
(***************************************************************************)
unique_source_keys(deps) ==
    \A d1 \in deps : \A d2 \in deps : d1.source_key = d2.source_key => d1.id = d2.id

\* C4: with passes that insert the same keys at the same time, no key is in
\* the table twice, no pass ends in an error, and a pass that has returned
\* has left none of its (stop, display) pairs without a row
C4_ConcurrentMaterialize ==
    /\ unique_source_keys(departures)
    /\ \A p \in Passes :
         /\ mat[p].pc # "failed"
         /\ mat[p].pc = "idle" => \A k \in mat[p].due : source_key_taken(departures, k)

\* C4 witness: two passes have returned that had the same two keys to insert
\* and each lost one of the two inserts to the other
C4_Witness ==
    \E p \in Passes : \E q \in Passes :
      /\ p # q
      /\ mat[p].pc = "idle" /\ mat[q].pc = "idle"
      /\ mat[p].due = mat[q].due /\ Cardinality(mat[p].due) = 2
      /\ mat[p].created_any /\ mat[q].created_any
      /\ Cardinality(departures) = 2

\* the source keys a pass at this clock value has to insert
due_keys(trs, stops, locs, clock, create_window_hours) ==
    LET rows == materialize_rows(trs, stops, locs)
    IN  UNION { LET r == rows[i]
                    dep_dt == row_dep_dt(r, clock, clock, create_window_hours)
                    sids == parse_screen_ids(r.screen_ids)
                IN  IF dep_dt = NULL THEN {}
                    ELSE { tour_source_key(r, sids[j], dep_dt) : j \in 1..Len(sids) }
              : i \in 1..Len(rows) }

materialize_now(st) ==
    materialize_tours_to_departures(st, tours, tour_stops, locations, now,
                                    MATERIALIZE_TOURS_HOURS_BEFORE)

\* C2: no two rows of departures have the same source_key, and a pass whose
\* (tour, stop, screen, occurrence) tuples are all in the table already leaves
\* the table as it is
C2_UniqueSourceKey ==
    /\ unique_source_keys(departures)
    /\ (\A k \in due_keys(tours, tour_stops, locations, now, MATERIALIZE_TOURS_HOURS_BEFORE) :
          source_key_taken(departures, k))
         => materialize_now(Store) = Store

\* C2 witness: the table holds two rows, and every tuple a pass would insert
\* now is among them
C2_Witness ==
    LET due == due_keys(tours, tour_stops, locations, now, MATERIALIZE_TOURS_HOURS_BEFORE)
    IN  /\ due # {}
        /\ \A k \in due : source_key_taken(departures, k)
        /\ Cardinality(departures) = 2

\* C3: a second pass at the same clock value over the same tours, stops and
\* locations inserts no row: it leaves the table and the id counter as the
\* first pass left them
C3_MaterializeIdempotent ==
    LET once == materialize_now(Store)
    IN  materialize_now(once) = once

\* C3 witness: the first of the two passes inserts rows
C3_Witness ==
    materialize_now(Store).deps # departures

\* C8: a pass inserts the row of every occurrence T of an active tour with
\* now - 1 day < T <= now + horizon, the occurrence that has just passed
\* included
C8_BackwardTolerance ==
    LET rows == materialize_rows(tours, tour_stops, locations)
        after == materialize_now(Store).deps
    IN  \A i \in 1..Len(rows) :
          LET r == rows[i]
              nxt == next_datetime_for_weekday_time(r.weekday, row_hour(r), row_minute(r), now)
              sids == parse_screen_ids(r.screen_ids)
          IN  \A T \in {nxt - Days(7), nxt} :
                (now - Days(1) < T /\ T <= now + Hours(MATERIALIZE_TOURS_HOURS_BEFORE))
                  => \A j \in 1..Len(sids) :
                       source_key_taken(after, tour_source_key(r, sids[j], T))

\* the row was materialized from the tour of this id
from_tour(d, tour_id) == d.source_key[1] = "TOUR" /\ d.source_key[2] = tour_id

\* C13 as stated: no row of the table comes from a tour whose minute is
\* neither 0 nor 30
C13_MalformedMinuteSkipped ==
    \A t \in tours : t.minute \notin {0, 30} =>
      \A d \in departures : ~from_tour(d, t.id)

\* C13 as amended: a tour whose minute is neither 0 nor 30 is materialized as
\* the same tour with minute 0: the pass leaves what it leaves for that tour
\* with minute 0, and every row of the tour is at minute 0 of its hour
C13_MalformedMinuteAsZero ==
    \A t \in tours : t.minute \notin {0, 30} =>
      /\ materialize_tours_to_departures(Store, (tours \ {t}) \cup {[t EXCEPT !.minute = 0]},
              tour_stops, locations, now, MATERIALIZE_TOURS_HOURS_BEFORE)
           = materialize_tours_to_departures(Store, tours, tour_stops, locations, now,
                 MATERIALIZE_TOURS_HOURS_BEFORE)
      /\ \A d \in departures : from_tour(d, t.id) => d.datetime % Hours(1) = 0

\* C13 witness: a pass has created rows for a tour with minute 15
C13_Witness ==
    \E t \in tours : t.minute = 15 /\ \E d \in departures : from_tour(d, t.id)

\* C14: whatever rows the table tours holds, a pass ends without an exception
\* and has inserted the rows of every joined row that is due
C14_MalformedCannotBlock ==
    LET rows == materialize_rows(tours, tour_stops, locations)
        after == materialize_tours_to_departures(Store, tours, tour_stops, locations, now,
                     MATERIALIZE_TOURS_HOURS_BEFORE).deps
    IN  /\ ~materialize_raises(tours, tour_stops, locations)
        /\ \A i \in 1..Len(rows) :
             LET r == rows[i]
                 sids == parse_screen_ids(r.screen_ids)
             IN  ~row_raises(r) =>
                   LET dep_dt == row_dep_dt(r, now, now, MATERIALIZE_TOURS_HOURS_BEFORE)
                   IN  dep_dt # NULL =>
                         \A j \in 1..Len(sids) :
                           source_key_taken(after, tour_source_key(r, sids[j], dep_dt))

\* the tour has a stop at a location that is not active
has_inactive_stop(t) ==
    \E s \in tour_stops : s.tour_id = t.id /\ locations[s.location_id].active = 0

\* C15 as stated: a pass inserts no row for a tour that has a stop at an
\* inactive location
C15_InactiveStopSkipsTemplate ==
    LET new == materialize_now(Store).deps \ departures
    IN  \A t \in tours : has_inactive_stop(t) => \A d \in new : ~from_tour(d, t.id)

\* C15 as amended: a pass inserts rows only for active tours and only for
\* stops whose own location is active, and it leaves what it leaves when the
\* stops at inactive locations are taken out of the tours: such a stop does
\* not keep the other stops of its tour from getting their rows
C15_InactiveStopSkipsStop ==
    LET after == materialize_now(Store)
        new == after.deps \ departures
        active_stops == { s \in tour_stops : locations[s.location_id].active = 1 }
    IN  /\ \A d \in new :
             /\ locations[d.location_id].active = 1
             /\ \E t \in tours : from_tour(d, t.id) /\ t.active = 1
        /\ materialize_tours_to_departures(Store, tours, active_stops, locations, now,
                                           MATERIALIZE_TOURS_HOURS_BEFORE) = after

\* C15 witness: a pass has just run over an active tour with one stop at an
\* active and one at an inactive location, and the table holds the row of the
\* first stop and none of the second
C15_Witness ==
    \E t \in tours :
      /\ t.active = 1
      /\ has_inactive_stop(t)
      /\ materialize_now(Store) = Store
      /\ \E d \in departures :
           /\ from_tour(d, t.id)
           /\ locations[d.location_id].active = 1
           /\ d.datetime = next_datetime_for_weekday_time(t.weekday, t.hour, t.minute, now)
      /\ \A d \in departures : from_tour(d, t.id) => locations[d.location_id].active = 1

\* the columns of a row that the INSERT of the pass sets, without the id
inserted_columns(d) ==
    [datetime |-> d.datetime, location_id |-> d.location_id, status |-> d.status,
     ready_at |-> d.ready_at, completed_at |-> d.completed_at, screen_id |-> d.screen_id,
     source_key |-> d.source_key]

\* C18: for an active tour whose stops are all at active locations and that
\* has no row in the table, a pass inserts exactly one row per (stop, screen)
\* pair when the next occurrence is at most the horizon ahead (the occurrence
\* exactly at now + horizon included) and none when it is later; each row is
\* PLANNED with ready_at and completed_at unset and has the location of the
\* stop, the screen and the occurrence of the resolver
C18_MaterializeCreatesDue ==
    LET new == materialize_now(Store).deps \ departures
    IN  \A t \in tours :
          ( /\ t.active = 1
            /\ ~has_inactive_stop(t)
            /\ \A d \in departures : ~from_tour(d, t.id) )
            => LET occ == next_datetime_for_weekday_time(t.weekday, t.hour, t.minute, now)
                   sids == parse_screen_ids(t.screen_ids)
                   pairs == { s \in tour_stops : s.tour_id = t.id } \X { sids[j] : j \in 1..Len(sids) }
                   mine == { d \in new : from_tour(d, t.id) }
               IN  IF occ <= now + Hours(MATERIALIZE_TOURS_HOURS_BEFORE)
                     THEN /\ Cardinality(mine) = Cardinality(pairs)
                          /\ { inserted_columns(d) : d \in mine } =
                               { [datetime |-> occ, location_id |-> p[1].location_id,
                                  status |-> "GEPLANT", ready_at |-> NULL,
                                  completed_at |-> NULL, screen_id |-> p[2],
                                  source_key |-> <<"TOUR", t.id, p[1].position, p[2], occ>>]
                                 : p \in pairs }
                     ELSE mine = {}

\* C18 witness: a pass has run exactly twelve hours before the occurrence of
\* a tour with two stops, and the table holds its two PLANNED rows
C18_Witness ==
    \E t \in tours :
      LET occ == next_datetime_for_weekday_time(t.weekday, t.hour, t.minute, now)
          mine == { d \in departures : from_tour(d, t.id) }
      IN  /\ t.active = 1
          /\ occ = now + Hours(MATERIALIZE_TOURS_HOURS_BEFORE)
          /\ Cardinality({ s \in tour_stops : s.tour_id = t.id }) = 2
          /\ Cardinality(mine) = 2
          /\ \A d \in mine : d.datetime = occ /\ d.status = "GEPLANT"

\* C20: no step (pass, tour edit, tour delete, location edit, manual create)
\* changes the occurrence, the location, the screen or the source_key of a
\* row that is in the table
C20_IdentityImmutable ==
    [][\A d \in departures : \A e \in departures' :
         e.id = d.id =>
           /\ e.datetime = d.datetime
           /\ e.location_id = d.location_id
           /\ e.screen_id = d.screen_id
           /\ e.source_key = d.source_key]_vars

\* C20 witness: a row materialized from a tour whose time and whose stop have
\* been edited since: the tour is at another time of day and its stop of the
\* row's position at another location than the row
C20_Witness ==
    \E d \in departures : \E t \in tours :
      /\ from_tour(d, t.id)
      /\ d.datetime % Days(1) # Hours(t.hour) + Minutes(t.minute)
      /\ \E s \in tour_stops :
           /\ s.tour_id = t.id
           /\ s.position = d.source_key[3]
           /\ s.location_id # d.location_id
      /\ d.status # "GEPLANT"

\* C19: the resolver returns the one datetime d with now < d <= now + 7 days
\* that has the weekday and the time of day asked for: the slot of today when
\* that is strictly ahead, the slot one week later when today's slot has
\* passed or is exactly now
C19_ResolverNextOccurrence ==
    \A t \in tours :
      LET d == next_datetime_for_weekday_time(t.weekday, t.hour, t.minute, now)
          time_of_day == Hours(t.hour) + Minutes(t.minute)
          today_slot == Days(now \div Days(1)) + time_of_day
      IN  /\ now < d
          /\ d <= now + Days(7)
          /\ weekday_of(d) = WEEKDAY_TO_INT(t.weekday)
          /\ d % Days(1) = time_of_day
          /\ \A x \in (now + 1)..(now + Days(7)) :
               (x - d) % Days(7) = 0 => x = d
          /\ weekday_of(now) = WEEKDAY_TO_INT(t.weekday) =>
               d = IF today_slot > now THEN today_slot ELSE today_slot + Days(7)

\* C19 witness: the clock stands exactly at the slot of the tour, whose row a
\* pass has inserted before, and the resolver gives the slot of next week
C19_Witness ==
    \E t \in tours : \E e \in departures :
      /\ from_tour(e, t.id)
      /\ e.datetime = now
      /\ next_datetime_for_weekday_time(t.weekday, t.hour, t.minute, now) = now + Days(7)

\* C11: a call of execute_with_retry makes at most `retries` rounds and never
\* returns to the pass without a round having executed the statement: rounds
\* that all fail on the lock end in an error
C11_LockFailureSurfaces ==
    \A p \in Passes : mat[p].attempt < retries /\ ~mat[p].abandoned

\* C12: a pass that has returned has committed if and only if one of its
\* INSERTs has added a row
C12_CommitIffInserted ==
    \A p \in Passes : mat[p].pc = "idle" => (mat[p].committed <=> mat[p].inserted_any)

(***************************************************************************)
(* Properties of the rows get_screen_data returns                          *)
(***************************************************************************)
\* the row d is in the data frame get_screen_data returns for the screen
returned(d, screen_id) ==
    LET df == get_screen_data(departures, locations, screens, screen_id, now)
    IN  \E i \in 1..Len(df) : df[i].row = d

\* the row passes the steps of get_screen_data before the time window
candidate(d, screen_id) ==
    /\ locations[d.location_id].active = 1
    /\ owned_by(d, screen_id)
    /\ passes_filters(d, locations, screens[screen_id])

\* C21: a row that is not ABGESCHLOSSEN, of an active location, owned by the
\* screen or by none and passing the filters of the screen, is returned for
\* the screen exactly when now - 20 min <= datetime <= now + 12 h
C21_TimeWindow ==
    \A screen_id \in ScreenIds : \A d \in departures :
      (d.status # "ABGESCHLOSSEN" /\ candidate(d, screen_id))
        => ( returned(d, screen_id)
             <=> (now - 20 * 60 <= d.datetime /\ d.datetime <= now + 12 * 3600) )

\* C21 witness: a row that lies exactly 12 h ahead is returned
C21_Witness ==
    \E d \in departures : d.status # "ABGESCHLOSSEN" /\ d.datetime = now + 12 * 3600
                           /\ returned(d, 1)

\* C22: a row that is ABGESCHLOSSEN, of an active location, owned by the
\* screen or by none, passing the filters of the screen and inside the time
\* window, is returned for the screen exactly when now <= base + 10 min,
\* where base is completed_at if it is set and datetime + 20 min if not
C22_RetentionCutoff ==
    \A screen_id \in ScreenIds : \A d \in departures :
      ( /\ d.status = "ABGESCHLOSSEN"
        /\ candidate(d, screen_id)
        /\ now - 20 * 60 <= d.datetime /\ d.datetime <= now + 12 * 3600 )
        => ( returned(d, screen_id)
             <=> IF d.completed_at # NULL THEN now <= d.completed_at + 10 * 60
                 ELSE now <= d.datetime + 20 * 60 + 10 * 60 )

\* C22 witness: a completed row inside the time window is returned at the
\* last instant of its retention
C22_Witness ==
    \E d \in departures :
      /\ d.status = "ABGESCHLOSSEN" /\ d.completed_at # NULL
      /\ now = d.completed_at + 10 * 60
      /\ returned(d, 1)

\* C27: no row returned for a screen is owned by another screen, and a row
\* that passes every other step of get_screen_data is returned for the screen
\* exactly when its screen_id is NULL or the screen
C27_OwnershipFilter ==
    \A screen_id \in ScreenIds : \A d \in departures :
      /\ returned(d, screen_id) => d.screen_id \in {NULL, screen_id}
      /\ ( /\ locations[d.location_id].active = 1
           /\ passes_filters(d, locations, screens[screen_id])
           /\ in_window(d, now)
           /\ visible(d, now) )
           => (returned(d, screen_id) <=> d.screen_id \in {NULL, screen_id})

\* C27 witness: screen 2 is given a row of no screen and is not given a row
\* of screen 1 that screen 1 is given
C27_Witness ==
    \E d, e \in departures :
      /\ d.screen_id = NULL /\ returned(d, 2)
      /\ e.screen_id = 1 /\ returned(e, 1) /\ ~returned(e, 2)

\* the location ids the screen names in filter_locations
allow_list(screen_id) ==
    { screens[screen_id].filter_locations[i] : i \in DOMAIN screens[screen_id].filter_locations }
      \cap Nat

\* the row passes every step of get_screen_data but the filters of the screen
unfiltered(d, screen_id) ==
    /\ locations[d.location_id].active = 1
    /\ owned_by(d, screen_id)
    /\ in_window(d, now)
    /\ visible(d, now)

\* C28: with a filter_type other than ALLE only rows of locations of that
\* type are returned, with ids in filter_locations only rows of those
\* locations, and of the rows that pass the other steps exactly those that
\* meet the filters that are set are returned: all of them if none is set
C28_TargetFilters ==
    \A screen_id \in ScreenIds :
      LET filter_type == screens[screen_id].filter_type
          ids == allow_list(screen_id)
      IN  \A d \in departures :
            /\ (returned(d, screen_id) /\ filter_type # "ALLE")
                 => locations[d.location_id].type = filter_type
            /\ (returned(d, screen_id) /\ ids # {}) => d.location_id \in ids
            /\ unfiltered(d, screen_id)
                 => ( returned(d, screen_id)
                      <=> /\ filter_type = "ALLE" \/ locations[d.location_id].type = filter_type
                          /\ ids = {} \/ d.location_id \in ids )

\* C28 witness: screen 1 has both filters set; of two rows that pass the
\* other steps and are of the type of the screen, the one of a location in
\* the list is returned and the other one is not
C28_Witness ==
    /\ screens[1].filter_type # "ALLE" /\ allow_list(1) # {}
    /\ \E d, e \in departures :
         /\ unfiltered(d, 1) /\ unfiltered(e, 1)
         /\ locations[d.location_id].type = screens[1].filter_type
         /\ locations[e.location_id].type = screens[1].filter_type
         /\ returned(d, 1) /\ ~returned(e, 1)

\* C29: in the data frame returned for a screen, the datetime of a row is at
\* most the datetime of the row after it
C29_SortedByDatetime ==
    \A screen_id \in ScreenIds :
      LET df == get_screen_data(departures, locations, screens, screen_id, now)
      IN  \A i \in 1..(Len(df) - 1) : df[i].row.datetime <= df[i + 1].row.datetime

\* C29 witness: the data frame of screen 1 has two rows, and the one with the
\* lower id is the later one
C29_Witness ==
    LET df == get_screen_data(departures, locations, screens, 1, now)
    IN  /\ Len(df) = 2
        /\ df[1].row.datetime < df[2].row.datetime
        /\ df[1].row.id > df[2].row.id

\* a number below 100 in two decimal digits
decimal_digit(n) == <<"0", "1", "2", "3", "4", "5", "6", "7", "8", "9">>[n + 1]

decimal_pair(n) == decimal_digit(n \div 10) \o decimal_digit(n % 10)

\* the remaining seconds as HH:MM:SS, or as MM:SS below one hour
remaining_text(secs) ==
    LET mm_ss == decimal_pair((secs % 3600) \div 60) \o ":" \o decimal_pair(secs % 60)
    IN  IF secs >= 3600 THEN decimal_pair(secs \div 3600) \o ":" \o mm_ss ELSE mm_ss

\* C30: for a row with countdown_enabled = 1, the line info of a GEPLANT row
\* whose datetime is between now and now + 3 h is "Countdown: " and the time
\* left as HH:MM:SS, as MM:SS if less than one hour is left; the line info of
\* a GEPLANT row further ahead or in the past, and of every ABGESCHLOSSEN and
\* STORNIERT row, is ""
C30_FormatterPlannedTerminal ==
    \A d \in departures :
      d.countdown_enabled = 1 =>
        LET info == build_line_info(d, now)
            left == d.datetime - now
        IN  /\ (d.status = "GEPLANT" /\ 0 <= left /\ left <= 3 * 3600)
                 => info = "Countdown: " \o remaining_text(left)
            /\ (d.status = "GEPLANT" /\ (left < 0 \/ left > 3 * 3600)) => info = ""
            /\ d.status \in {"ABGESCHLOSSEN", "STORNIERT"} => info = ""
            /\ \A screen_id \in ScreenIds :
                 LET df == get_screen_data(departures, locations, screens, screen_id, now)
                 IN  \A i \in 1..Len(df) : df[i].row = d => df[i].line_info = info

\* C30 witness: a GEPLANT row with less than one hour left is returned for
\* screen 1 with a countdown of minutes and seconds
C30_Witness ==
    LET df == get_screen_data(departures, locations, screens, 1, now)
    IN  \E i \in 1..Len(df) :
          /\ df[i].row.status = "GEPLANT" /\ df[i].row.countdown_enabled = 1
          /\ df[i].row.datetime - now = 59 * 60 + 59
          /\ df[i].line_info = "Countdown: 59:59"

(***************************************************************************)
(* Properties of the operator's deletions                                  *)
(***************************************************************************)
\* the rows of departures that are gone after the step
removed_rows == { d \in departures : \A e \in departures' : e.id # d.id }

\* C23: no step removes a row whose source_key is that of a tour, and a step
\* that removes a row removes one row, of a manual source_key, and leaves
\* every other row as it is
C23_OnlyManualDeleted ==
    [][ /\ \A d \in removed_rows : d.source_key[1] = "MANUAL"
        /\ removed_rows # {} => \E d \in departures : departures' = departures \ {d} ]_vars

\* C23 witness: the one manual departure created has been deleted and the
\* tour has been deleted, and the row materialized from the tour is there
C23_Witness ==
    /\ next_uuid > 1
    /\ tours = {}
    /\ \A d \in departures : d.source_key[1] # "MANUAL"
    /\ \E d \in departures : d.source_key[1] = "TOUR"

(***************************************************************************)
(* Properties of the two passes together                                   *)
(***************************************************************************)
\* update_departure_statuses at the clock now over a store
advance_now(st) == [deps |-> update_departure_statuses(st.deps, now), next_id |-> st.next_id]

\* C24: materialize_tours_to_departures followed by update_departure_statuses
\* leaves the same table, and the same next id, as the two passes in the
\* other order do at the same clock
C24_PassesCommute ==
    advance_now(materialize_now(Store)) = materialize_now(advance_now(Store))

\* C24 witness: a store in which each of the two passes has something to
\* do: the first has a row to insert and the second a row to advance
C24_Witness ==
    /\ materialize_now(Store).deps # departures
    /\ update_departure_statuses(departures, now) # departures
    /\ advance_now(materialize_now(Store)).deps
         \notin {materialize_now(Store).deps, update_departure_statuses(departures, now)}

\* C25: after update_departure_statuses has run, a second run at the same
\* clock finds no row for to_ready and none for to_done, so it writes
\* nothing, and the table after it is the table before it
C25_AdvanceIdempotent ==
    LET once == update_departure_statuses(departures, now)
    IN  /\ to_ready_of(once, now) = {}
        /\ to_done_of(once, now) = {}
        /\ update_departure_statuses(once, now) = once

\* C25 witness: a table of which the first run moves one row to BEREIT and
\* another one to ABGESCHLOSSEN
C25_Witness ==
    /\ to_ready_of(departures, now) # {}
    /\ to_done_of(departures, now) # {}
    /\ \E d \in update_departure_statuses(departures, now) :
         d.status = "BEREIT" /\ d.ready_at = now
    /\ \E d \in update_departure_statuses(departures, now) :
         d.status = "ABGESCHLOSSEN" /\ d.completed_at = now

(***************************************************************************)
(* Properties of the script runs                                           *)
(***************************************************************************)
\* in the calls of a run, every update_departure_statuses comes right after a
\* materialize_tours_to_departures, and every loading of rows right after an
\* update_departure_statuses
ordered_calls(c) ==
    \A i \in 1..Len(c) :
      /\ c[i] = "update_departure_statuses"
           => (i >= 2 /\ c[i - 1] = "materialize_tours_to_departures")
      /\ c[i] \in LoadCalls
           => (i >= 3 /\ c[i - 1] = "update_departure_statuses"
                      /\ c[i - 2] = "materialize_tours_to_departures")

\* C26: in every script run, display or admin, the rows for the page are
\* loaded only after materialize_tours_to_departures and then
\* update_departure_statuses have been called in this run, and no step
\* changes the table of departures other than a call of a pass by a run
C26_PassesBeforeLoad ==
    /\ [](\A p \in Passes : ordered_calls(req[p].calls))
    /\ [][ departures' # departures =>
             \E p \in Passes : \E name \in {"materialize_tours_to_departures",
                                           "update_departure_statuses"} :
               req'[p].calls = Append(req[p].calls, name) ]_vars

\* C26 witness: a display run has loaded the rows of its screen and an admin
\* run the rows of its page, each after the passes
C26_Witness ==
    \E p, q \in Passes :
      /\ req[p].kind = "display" /\ req[p].pc = "idle"
      /\ req[p].calls = <<"materialize_tours_to_departures", "update_departure_statuses",
                          "get_screen_data">>
      /\ req[q].kind = "admin" /\ req[q].pc = "idle"
      /\ req[q].calls = <<"materialize_tours_to_departures", "update_departure_statuses",
                          "materialize_tours_to_departures", "update_departure_statuses",
                          "load_departures_with_locations">>

\* C31: the line info of a BEREIT row with countdown_enabled = 1 is
\* "BEREIT seit " with the time since ready_at, " · " and "Abschluss in " with
\* the time left to datetime + 20 min, 00:00 once that instant has passed; a
\* row the status pass has made BEREIT has its ready_at, so both parts are there
C31_FormatterReady ==
    \A d \in departures :
      (d.status = "BEREIT" /\ d.countdown_enabled = 1) =>
        LET left == d.datetime + 20 * 60 - now
        IN  /\ d.ready_at # NULL
            /\ build_line_info(d, now)
                 = "BEREIT seit " \o remaining_text(now - d.ready_at) \o " · "
                   \o "Abschluss in " \o remaining_text(IF left < 0 THEN 0 ELSE left)

\* C31 witness: a BEREIT row with countdown whose deadline has passed five
\* minutes ago, shown with zero time left
C31_Witness ==
    \E d \in departures :
      /\ d.status = "BEREIT" /\ d.countdown_enabled = 1 /\ d.ready_at # NULL
      /\ now = d.datetime + 25 * 60
      /\ build_line_info(d, now)
           = "BEREIT seit " \o remaining_text(now - d.ready_at) \o " · Abschluss in 00:00"

(***************************************************************************)
(* Properties of the deletion of locations                                 *)
(***************************************************************************)
\* the locations a departure, a tour or a tour stop refers to
referenced_locations ==
    { d.location_id : d \in departures } \cup { s.location_id : s \in tour_stops }
      \cup UNION { primary_location(t) : t \in tours }

\* C33: every departure, tour and tour stop refers to a location there is;
\* no step removes a location that one of them refers to, and the step that
\* removes a location removes no departure, tour or stop
C33_DeleteLocationGuarded ==
    /\ [](referenced_locations \subseteq DOMAIN locations)
    /\ [][ /\ referenced_locations \subseteq DOMAIN locations'
           /\ DOMAIN locations' # DOMAIN locations
                => /\ Cardinality(DOMAIN locations \ DOMAIN locations') = 1
                   /\ DOMAIN locations' \subseteq DOMAIN locations
                   /\ departures' = departures /\ tours' = tours /\ tour_stops' = tour_stops
         ]_vars

\* C33 witness: one location has been deleted, and the other one, which a
\* departure refers to, is there
C33_Witness ==
    /\ Cardinality(DOMAIN locations) = 1
    /\ \E d \in departures : d.location_id \in DOMAIN locations

(***************************************************************************)
(* Properties of the failures of the INSERT of a pass                      *)
(***************************************************************************)
\* C32: a pass goes on after an INSERT only if the INSERT went through or
\* its source_key was taken; an INSERT that fails for another reason, such as
\* a location that is not there, leaves the pass with the error
C32_OtherFailuresPropagate ==
    \A p \in Passes : mat[p].fk_swallowed => mat[p].pc = "failed"

(***************************************************************************)
(* Liveness of the status automation                                       *)
(***************************************************************************)
\* the ids of the rows of the table
RowIds == 1..MaxDepartures

\* the row of the id is there, is not STORNIERT and is past datetime + 20 min
completion_due(i) ==
    \E d \in departures :
      d.id = i /\ d.status # "STORNIERT" /\ now >= d.datetime + 20 * 60

\* the row of the id is ABGESCHLOSSEN and has its completed_at
completed(i) ==
    \E d \in departures : d.id = i /\ d.status = "ABGESCHLOSSEN" /\ d.completed_at # NULL

\* C34: with passes that keep being started and run to their end, every row
\* that is not STORNIERT and past datetime + 20 min becomes ABGESCHLOSSEN
\* with completed_at set and, once the passes started before have ended,
\* stays so
C34_EventualCompletion ==
    \A i \in RowIds : completion_due(i) ~> [](completed(i))

\* C34 witness: the clock is past datetime + 20 min of a row, no pass is
\* running, and the row is ABGESCHLOSSEN with completed_at at or after that
C34_Witness ==
    /\ \A p \in Passes : adv[p].pc = "idle"
    /\ \E i \in RowIds : completion_due(i) /\ completed(i)

(***************************************************************************)
(* Invariants of status and timestamps under interleaved passes            *)
(***************************************************************************)
\* C35: a GEPLANT row has neither ready_at nor completed_at, a BEREIT row
\* has its ready_at, an ABGESCHLOSSEN row has its completed_at
C35_StatusTimestampConsistency ==
    \A d \in departures :
      /\ d.status = "GEPLANT" => (d.ready_at = NULL /\ d.completed_at = NULL)
      /\ d.status = "BEREIT" => d.ready_at # NULL
      /\ d.status = "ABGESCHLOSSEN" => d.completed_at # NULL

\* C35 witness: the table holds a BEREIT row with ready_at and an
\* ABGESCHLOSSEN row with completed_at that was never BEREIT
C35_Witness ==
    \E d, e \in departures :
      /\ d.status = "BEREIT" /\ d.ready_at # NULL /\ d.completed_at = NULL
      /\ e.status = "ABGESCHLOSSEN" /\ e.completed_at # NULL /\ e.ready_at = NULL

\* C36: a ready_at lies in [datetime, datetime + 20 min), a completed_at at or
\* after datetime + 20 min
C36_TimestampBounds ==
    \A d \in departures :
      /\ d.ready_at # NULL => (d.datetime <= d.ready_at /\ d.ready_at < d.datetime + 20 * 60)
      /\ d.completed_at # NULL => d.completed_at >= d.datetime + 20 * 60

\* C36 witness: a row made BEREIT at its datetime and ABGESCHLOSSEN exactly
\* 20 min later
C36_Witness ==
    \E d \in departures :
      d.ready_at = d.datetime /\ d.completed_at = d.datetime + 20 * 60

(***************************************************************************)
(* The occurrence of a row materialize_tours_to_departures inserts         *)
(***************************************************************************)
\* C37: every row a pass inserts has its datetime strictly after the `now` of
\* the pass and at most 12 h after it, is GEPLANT, and is selected neither
\* for BEREIT nor for ABGESCHLOSSEN by a status pass at that `now`
C37_InsertedStrictlyAhead ==
    [][ \A d \in departures' :
          d.id \notin { e.id : e \in departures } =>
            \E p \in Passes :
              /\ mat'[p] # mat[p]
              /\ mat[p].now < d.datetime
              /\ d.datetime <= mat[p].now + Hours(MATERIALIZE_TOURS_HOURS_BEFORE)
              /\ d.id \notin to_ready_of(departures', mat[p].now)
              /\ d.id \notin to_done_of(departures', mat[p].now) ]_vars

\* C37 witness: a pass that read the clock one hour before the occurrence has
\* inserted its row
C37_Witness ==
    \E p \in Passes : \E d \in departures :
      /\ mat[p].inserted_any
      /\ mat[p].now = Slot - Hours(1)
      /\ d.created_by = "TOUR_AUTO"
      /\ d.datetime = Slot

(***************************************************************************)
(* What update_departure_statuses leaves alone                             *)
(***************************************************************************)
\* the row of departures with the id of d after the step
row_after(d) == CHOOSE e \in departures' : e.id = d.id

\* C38: a step without an INSERT (next_id stays), which for the table is a
\* status pass, keeps the set of ids, changes no column other than status,
\* ready_at and completed_at, changes no row that is ABGESCHLOSSEN or
\* STORNIERT or whose datetime is after now, leaves completed_at as it is in
\* a row it makes BEREIT and ready_at as it is in a row it makes ABGESCHLOSSEN
C38_StatusPassFrame ==
    [][ next_id' = next_id =>
          /\ { d.id : d \in departures' } = { d.id : d \in departures }
          /\ Cardinality(departures') = Cardinality(departures)
          /\ \A d \in departures :
               LET e == row_after(d)
               IN  /\ e = [d EXCEPT !.status = e.status, !.ready_at = e.ready_at,
                                    !.completed_at = e.completed_at]
                   /\ d.status \in {"ABGESCHLOSSEN", "STORNIERT"} => e = d
                   /\ now < d.datetime => e = d
                   /\ (e # d /\ e.status = "BEREIT") => e.completed_at = d.completed_at
                   /\ (e # d /\ e.status = "ABGESCHLOSSEN") => e.ready_at = d.ready_at ]_vars

\* C38 witness: past the deadline of both, the STORNIERT row of the file is
\* as it was and a row of the tour has been made ABGESCHLOSSEN by a pass
C38_Witness ==
    /\ now >= completion_deadline(LegacySlot)
    /\ \E d \in departures :
         /\ d.id = 1 /\ d.status = "STORNIERT"
         /\ d.ready_at = NULL /\ d.completed_at = NULL
    /\ \E d \in departures :
         /\ d.id # 1 /\ d.status = "ABGESCHLOSSEN"
         /\ d.completed_at # NULL

(***************************************************************************)
(* Departures of a location that is not active                             *)
(***************************************************************************)
\* the row d is among the rows the warehouse page shows for the zone
shown_for_zone(d, zone_screen_id) ==
    LET rows == get_next_two_departures_for_zone(departures, locations, zone_screen_id, now)
    IN  \E i \in 1..Len(rows) : rows[i] = d

\* C39: no row of a location that is not active is returned by
\* get_screen_data or by get_next_two_departures_for_zone for any screen, and
\* a step that changes locations leaves every row of departures as it is
C39_InactiveLocationHidden ==
    /\ [](\A screen_id \in ScreenIds : \A d \in departures :
            locations[d.location_id].active # 1
              => (~returned(d, screen_id) /\ ~shown_for_zone(d, screen_id)))
    /\ [][locations' # locations => departures' = departures]_vars

\* C39 witness: a row that passes every other step of get_screen_data for its
\* screen is not returned because its location has been deactivated
C39_Witness ==
    \E d \in departures :
      /\ locations[d.location_id].active = 0
      /\ d.screen_id = 1
      /\ passes_filters(d, locations, screens[1])
      /\ in_window(d, now)
      /\ visible(d, now)
      /\ ~returned(d, 1)

(***************************************************************************)
(* Rows with status STORNIERT                                              *)
(***************************************************************************)
\* C40: a STORNIERT row is returned for a screen exactly when its location is
\* active, it is owned by the screen or by none, it passes the filters of the
\* screen and now - 20 min <= datetime <= now + 12 h; and no step changes or
\* removes a STORNIERT row
C40_CancelledPolicy ==
    /\ [](\A screen_id \in ScreenIds : \A d \in departures :
            d.status = "STORNIERT"
              => ( returned(d, screen_id)
                   <=> ( /\ candidate(d, screen_id)
                         /\ now - Minutes(AUTO_COMPLETE_AFTER_MIN) <= d.datetime
                         /\ d.datetime <= now + Hours(DISPLAY_WINDOW_HOURS) ) ))
    /\ [][\A d \in departures : d.status = "STORNIERT" => d \in departures']_vars

\* C40 witness: at the last instant of the window, 20 min after its datetime,
\* the STORNIERT row is returned, unchanged by the pass that has completed
\* another row at this instant
C40_Witness ==
    \E d, e \in departures :
      /\ d.status = "STORNIERT" /\ d.ready_at = NULL /\ d.completed_at = NULL
      /\ now = d.datetime + Minutes(AUTO_COMPLETE_AFTER_MIN)
      /\ returned(d, 1)
      /\ e.status = "ABGESCHLOSSEN" /\ e.completed_at = now

(***************************************************************************)
(* Properties of the screen data                                           *)
(***************************************************************************)
\* C9: a row the automation has completed is among the rows of its screen
\* as long as now <= completed_at + KEEP_COMPLETED_MINUTES
C9_RetentionReadmits ==
    \A d \in departures :
      ( /\ d.status = "ABGESCHLOSSEN"
        /\ d.completed_at # NULL
        /\ d.completed_at >= completion_deadline(d.datetime)
        /\ now <= d.completed_at + Minutes(KEEP_COMPLETED_MINUTES)
        /\ locations[d.location_id].active = 1 )
        => d \in screen_rows(departures, locations, screens, d.screen_id, now)

\* C10: the line info of a row whose countdown_enabled is 0 is the empty
\* string
C10_CountdownSuppressed ==
    \A d \in departures : d.countdown_enabled = 0 => build_line_info(d, now) = ""

====
